---- MODULE Spec2Model ----
(***************************************************************************)
(* Vendor invoice validator: the snapshot reconciliation of                *)
(* snapshot_handler.py (compare_with_snapshot and its helpers) and the     *)
(* SQLite snapshot store of invoice_tracker.py.                            *)
(*                                                                         *)
(* A pandas DataFrame is a record [columns, rows]: the set of its column   *)
(* names and the sequence of its rows, each row a function from the column *)
(* names to cell values; the frame has the default RangeIndex, so a row's  *)
(* index label is its position (1-based here).  A cell is a string or NaN. *)
(* A snapshot directory is a function from file names to file contents.    *)
(* Dates are day numbers: the code compares "%Y-%m-%d" strings, whose      *)
(* lexicographic order is the order of the days.                           *)
(***************************************************************************)
EXTENDS Integers, Sequences, FiniteSets, TLC

VARIABLES
    df,                     \* the current frame handed to compare_with_snapshot
    snapshot_dir,           \* the snapshot directory: file name -> content
    today,                  \* the run date handed to compare_with_snapshot
    previous_snapshot_path, \* compare_with_snapshot's local previous_snapshot_path
    previous_df,            \* compare_with_snapshot's local previous_df
    effective_primary_key,  \* compare_with_snapshot's local effective_primary_key
    comparison_result,      \* compare_with_snapshot's local comparison_result
    delta,                  \* the value compare_with_snapshot returned
    db,                     \* table invoice_snapshots, in rowid order
    sqlite_sequence,        \* the largest id the AUTOINCREMENT key has given out
    write_lock,             \* a connection dropped by a failed save holds the write lock
    last_call,              \* the last save_invoice_snapshot call and how it ended
    read_result,            \* what get_invoice_snapshots_by_date_range returned
    run_log,                \* table run_log, in rowid order
    run_windows,            \* table run_windows, in rowid order
    run_log_sequence,       \* the largest id given out for run_log
    run_windows_sequence,   \* the largest id given out for run_windows
    current_date,           \* the day datetime.now() reads
    last_cutoff_date,       \* the cutoff_date of the archive call just made
    processing_results,     \* ProductionInvoiceValidationSystem.processing_results
    exit_status,            \* the status the production entry point exited with
    runs,                   \* the invocations of run_validation_workflow: position and locals
    job,                    \* the job of the scheduler: its last_run and next_run
    requested,              \* the date range rms_scraper passed to rms_download
    scanned,                \* the call of scan_invoice_files and the invoice dates it kept
    invoices,               \* two invoice dictionaries handed to calculate_invoice_hash
    hashes,                 \* what calculate_invoice_hash returned for them
    validation,             \* the extract validate_invoices was given and what it returned
    choice,                 \* the headers _choose_first was given and the header it chose
    scheduled_jobs,         \* schedule.jobs: the jobs registered with the default scheduler
    local_files,            \* the files process_local_files attempted and its counters
    update                  \* the attempts of update_invoice_status and its result

vars == <<df, snapshot_dir, today, previous_snapshot_path, previous_df,
          effective_primary_key, comparison_result, delta,
          db, sqlite_sequence, write_lock, last_call, read_result,
          run_log, run_windows, run_log_sequence, run_windows_sequence, current_date,
          last_cutoff_date, processing_results, exit_status, runs, job, requested, scanned,
          invoices, hashes,
          validation, choice, scheduled_jobs, local_files, update>>

fileVars == <<df, snapshot_dir, today, previous_snapshot_path, previous_df,
              effective_primary_key, comparison_result, delta>>

dbVars == <<db, sqlite_sequence, write_lock, last_call, read_result>>

runVars == <<run_log, run_windows, run_log_sequence, run_windows_sequence, current_date,
             last_cutoff_date>>

hashVars == <<invoices, hashes>>

callVars == <<validation, choice, scheduled_jobs, local_files, update>>

entryVars == <<processing_results, exit_status, runs, job, requested, scanned,
               invoices, hashes>>

-----------------------------------------------------------------------------
(* Bounds of the model *)

\* rows of a frame in the comparison specification
MaxRows == 2
\* rows of the current frame in the key-selection specification
MaxKeyRows == 5
\* the days 1..MaxDate
MaxDate == 4
\* the run dates 1..MaxRunDate of the store
MaxRunDate == 2
\* invoices in one save_invoice_snapshot call
MaxList == 2
\* rows of table invoice_snapshots
MaxDbRows == 3

\* rows of table run_log
MaxRunRows == 3

-----------------------------------------------------------------------------
(* Frames and cells *)

\* a missing cell (numpy NaN / None)
NaN == "<NaN>"
\* Python's None as a function result
None == "<None>"

Frame(cols, rows) == [columns |-> cols, rows |-> rows]

\* pd.DataFrame()
EmptyDataFrame == Frame({}, <<>>)

\* df.empty: some axis has length 0
IsEmpty(frame) == frame.columns = {} \/ Len(frame.rows) = 0

SeqsUpTo(S, n) == UNION {[1..k -> S] : k \in 0..n}

Min(S) == CHOOSE m \in S : \A o \in S : m <= o

Max(S) == CHOOSE m \in S : \A o \in S : m >= o

\* the rows of frame at the positions idx, in position order
RECURSIVE RowsAt(_, _, _)
RowsAt(rows, idx, i) ==
    IF i > Len(rows) THEN <<>>
    ELSE (IF i \in idx THEN <<rows[i]>> ELSE <<>>) \o RowsAt(rows, idx, i + 1)

\* series.astype(str): NaN prints as 'nan'
astype_str(v) == IF v = NaN THEN "nan" ELSE v

\* str.strip() on the cell values of the model
str_strip(s) ==
    CASE s = " x"  -> "x"
      [] s = " y"  -> "y"
      [] s = " "   -> ""
      [] OTHER     -> s

\* series.replace(['nan', 'None', 'NaT'], '')
replace_null_words(s) == IF s \in {"nan", "None", "NaT"} THEN "" ELSE s

\* clean_cell without the .str.strip()
clean_cell_without_strip(v) == replace_null_words(astype_str(v))

clean_cell(v) == replace_null_words(str_strip(astype_str(v)))

clean_dataframe_for_comparison(frame) ==
    Frame(frame.columns,
          [i \in 1..Len(frame.rows) |->
              [c \in frame.columns |-> clean_cell(frame.rows[i][c])]])

\* frame[cols]: the projection onto the columns cols
ProjectColumns(frame, cols) ==
    Frame(cols, [i \in 1..Len(frame.rows) |-> [c \in cols |-> frame.rows[i][c]]])

-----------------------------------------------------------------------------
(* The snapshot directory *)

\* A file "snapshot_<date>.xlsx" has stamp 0; save_snapshot's time-stamped copy
\* "snapshot_<date>_<HHMMSS>.xlsx" has a stamp > 0.
SnapshotFile(d, s) == [date |-> d, stamp |-> s]

Absent == [kind |-> "absent"]

\* a file pd.read_excel raises on
Unreadable == [kind |-> "unreadable"]

Xlsx(frame) == [kind |-> "xlsx", frame |-> frame]

\* DataFrame.to_excel followed by pd.read_excel: an empty string is written as
\* an empty cell and read back as NaN
excel_cell(v) == IF v = "" THEN NaN ELSE v

to_excel(frame) ==
    Xlsx(Frame(frame.columns,
               [i \in 1..Len(frame.rows) |->
                   [c \in frame.columns |-> excel_cell(frame.rows[i][c])]]))

\* os.listdir(snapshot_dir)
listdir(dir) == {f \in DOMAIN dir : dir[f] # Absent}

\* datetime.strptime(date_part, "%Y-%m-%d") succeeds: the time-stamped names
\* leave "_HHMMSS" unconverted and raise ValueError
date_part_is_valid(f) == f.stamp = 0

\* exclude_date=None
NoDate == 0

\* find_latest_snapshot returning None
NoPath == [kind |-> "none"]

\* every file whose date part parses is kept, the excluded date's too
snapshot_files_without_exclusion(dir, exclude_date) ==
    {f \in listdir(dir) : date_part_is_valid(f)}

\* The files find_latest_snapshot keeps in snapshot_files: the excluded date's
\* file is skipped, then the names whose date part does not parse
snapshot_files(dir, exclude_date) ==
    {f \in listdir(dir) :
        /\ ~(exclude_date # NoDate /\ f.stamp = 0 /\ f.date = exclude_date)
        /\ date_part_is_valid(f)}

\* sort by date, reverse=True, first element
find_latest_snapshot(dir, exclude_date) ==
    LET files == snapshot_files(dir, exclude_date)
    IN  IF files = {} THEN NoPath
        ELSE CHOOSE f \in files : \A g \in files : g.date <= f.date

-----------------------------------------------------------------------------
(* save_snapshot and its cleanup *)

\* keep_days of cleanup_old_snapshots
KeepDays == 30

\* cleanup_old_snapshots on the day now: a time-stamped copy is removed when its
\* date is keep_days or more before now.  The date part of a plain
\* "snapshot_<date>.xlsx" still ends in ".xlsx", does not parse, and the file is
\* skipped.
cleanup_old_snapshots(dir, now) ==
    [f \in DOMAIN dir |->
        IF f.stamp > 0 /\ f.date + KeepDays <= now THEN Absent ELSE dir[f]]

\* save_snapshot(df, snapshot_dir, today) called on the day now at the time
\* stamp: an empty frame is written to the time-stamped file only
save_snapshot(frame, dir, day, now, stamp) ==
    IF IsEmpty(frame)
    THEN [dir EXCEPT ![SnapshotFile(day, stamp)] = to_excel(EmptyDataFrame)]
    ELSE cleanup_old_snapshots(
             [dir EXCEPT ![SnapshotFile(day, stamp)] = to_excel(frame),
                         ![SnapshotFile(day, 0)] = to_excel(frame)],
             now)

-----------------------------------------------------------------------------
(* Primary key selection *)

\* the threshold 0.8 of determine_primary_key, as the fraction 4/5
UniqueRatioNum == 4
UniqueRatioDen == 5

potential_keys(preferred_key) ==
    <<preferred_key, "InvID", "Invoice_No", "PurchaseInvNo", "VoucherNo", "Voucher_No">>

\* df[key].nunique(): the distinct non-null values
nunique(frame, key) ==
    Cardinality({frame.rows[i][key] : i \in 1..Len(frame.rows)} \ {NaN})

\* len(df[key].dropna())
count_non_null(frame, key) ==
    Cardinality({i \in 1..Len(frame.rows) : frame.rows[i][key] # NaN})

\* current_total > 0 and current_unique / current_total > 0.8
has_reasonable_uniqueness(frame, key) ==
    /\ count_non_null(frame, key) > 0
    /\ nunique(frame, key) * UniqueRatioDen > UniqueRatioNum * count_non_null(frame, key)

determine_primary_key(current, previous, preferred_key) ==
    LET keys == potential_keys(preferred_key)
        ok == {i \in 1..Len(keys) :
                  /\ keys[i] \in current.columns
                  /\ keys[i] \in previous.columns
                  /\ has_reasonable_uniqueness(current, keys[i])}
    IN  IF ok = {} THEN None ELSE keys[Min(ok)]

-----------------------------------------------------------------------------
(* Record-by-record comparison *)

\* set(frame[primary_key].dropna().unique())
unique_ids(frame, primary_key) ==
    {frame.rows[i][primary_key] : i \in 1..Len(frame.rows)} \ {NaN}

\* frame[frame[primary_key].isin(ids)].index
index_isin(frame, primary_key, ids) ==
    {i \in 1..Len(frame.rows) : frame.rows[i][primary_key] \in ids}

\* has_changes of the loop body: the first current row and the first previous
\* row with this id differ in a comparison column
has_changes(current, previous, primary_key, record_id) ==
    LET current_record == index_isin(current, primary_key, {record_id})
        previous_record == index_isin(previous, primary_key, {record_id})
        comparison_columns == current.columns \ {primary_key}
        current_values == current.rows[Min(current_record)]
        previous_values == previous.rows[Min(previous_record)]
    IN  \E col \in comparison_columns :
            current_values[col] #
                (IF col \in previous.columns THEN previous_values[col] ELSE "")

\* The ids of common_ids the loop does not skip
compared_ids(current, previous, primary_key) ==
    {id \in unique_ids(current, primary_key) \cap unique_ids(previous, primary_key) :
        id # NaN /\ id # ""}

\* The lists are modelled as the sets of their indices: modified_indices and
\* unchanged_indices are filled in the iteration order of a Python set.
perform_detailed_comparison(current, previous, primary_key) ==
    LET current_ids == unique_ids(current, primary_key)
        previous_ids == unique_ids(previous, primary_key)
        added_ids == current_ids \ previous_ids
        deleted_ids == previous_ids \ current_ids
        common == compared_ids(current, previous, primary_key)
        changed == {id \in common : has_changes(current, previous, primary_key, id)}
    IN  [added_indices     |-> index_isin(current, primary_key, added_ids),
         modified_indices  |-> index_isin(current, primary_key, changed),
         deleted_indices   |-> index_isin(previous, primary_key, deleted_ids),
         unchanged_indices |-> index_isin(current, primary_key, common \ changed)]

\* frame.iloc[indices] if indices else pd.DataFrame()
iloc(frame, indices) ==
    IF indices = {} THEN EmptyDataFrame
    ELSE Frame(frame.columns, RowsAt(frame.rows, indices, 1))

map_comparison_to_original(current, previous, result, primary_key) ==
    [added    |-> iloc(current, result.added_indices),
     modified |-> iloc(current, result.modified_indices),
     deleted  |-> iloc(previous, result.deleted_indices),
     stats    |-> [added     |-> Cardinality(result.added_indices),
                   modified  |-> Cardinality(result.modified_indices),
                   deleted   |-> Cardinality(result.deleted_indices),
                   unchanged |-> Cardinality(result.unchanged_indices)]]

-----------------------------------------------------------------------------
(* compare_with_snapshot *)

NoResult == [kind |-> "none"]

NoFrame == [kind |-> "none"]

ZeroStats == [added |-> 0, modified |-> 0, deleted |-> 0, unchanged |-> 0]

\* the result of the early returns: every current record is added
all_added(current) ==
    [added    |-> current,
     modified |-> EmptyDataFrame,
     deleted  |-> EmptyDataFrame,
     stats    |-> [ZeroStats EXCEPT !.added = Len(current.rows)]]

\* the result for an empty current frame
nothing_to_compare ==
    [added    |-> EmptyDataFrame,
     modified |-> EmptyDataFrame,
     deleted  |-> EmptyDataFrame,
     stats    |-> ZeroStats]

\* previous_df after pd.read_excel(previous_snapshot_path), NoFrame when the
\* function returned before or the file could not be read
loaded_previous(current, dir, day) ==
    LET path == find_latest_snapshot(dir, day)
    IN  IF IsEmpty(current) \/ path = NoPath \/ dir[path].kind # "xlsx"
        THEN NoFrame
        ELSE dir[path].frame

\* effective_primary_key, None when the function returned before
chosen_key(current, dir, day, primary_key) ==
    LET previous == loaded_previous(current, dir, day)
    IN  IF previous = NoFrame \/ IsEmpty(previous) THEN None
        ELSE determine_primary_key(current, previous, primary_key)

\* the branch compare_with_snapshot returns from
compare_path(current, dir, day, primary_key) ==
    LET path == find_latest_snapshot(dir, day)
        previous == loaded_previous(current, dir, day)
        key == chosen_key(current, dir, day, primary_key)
    IN  CASE IsEmpty(current)              -> "empty_current"
          [] path = NoPath                 -> "no_snapshot"
          [] dir[path].kind # "xlsx"       -> "load_failed"
          [] IsEmpty(previous)             -> "empty_previous"
          [] key = None                    -> "no_key"
          [] current.columns \cap previous.columns = {} -> "no_common_columns"
          [] OTHER                         -> "compared"

\* comparison_result, NoResult when the function returned before
detailed_comparison(current, dir, day, primary_key) ==
    IF compare_path(current, dir, day, primary_key) # "compared" THEN NoResult
    ELSE LET previous == loaded_previous(current, dir, day)
             key == chosen_key(current, dir, day, primary_key)
             common_columns == current.columns \cap previous.columns
             df_clean == clean_dataframe_for_comparison(
                             ProjectColumns(current, common_columns))
             previous_df_clean == clean_dataframe_for_comparison(
                                      ProjectColumns(previous, common_columns))
         IN  perform_detailed_comparison(df_clean, previous_df_clean, key)

compare_with_snapshot(current, dir, day, primary_key) ==
    LET path == compare_path(current, dir, day, primary_key)
    IN  CASE path = "empty_current" -> nothing_to_compare
          [] path = "compared" ->
                map_comparison_to_original(
                    current,
                    loaded_previous(current, dir, day),
                    detailed_comparison(current, dir, day, primary_key),
                    chosen_key(current, dir, day, primary_key))
          [] OTHER -> all_added(current)

\* generate_change_summary: the four counts, their total, and the top vendors
\* line, which is written only for an added frame that has a Vendor column
generate_change_summary(result) ==
    [added     |-> result.stats.added,
     modified  |-> result.stats.modified,
     deleted   |-> result.stats.deleted,
     unchanged |-> result.stats.unchanged,
     total_changes |-> result.stats.added + result.stats.modified + result.stats.deleted,
     top_vendors |->
        IF result.stats.added > 0 /\ ~IsEmpty(result.added)
              /\ "Vendor" \in result.added.columns
        THEN {result.added.rows[i]["Vendor"] : i \in 1..Len(result.added.rows)} \ {NaN}
        ELSE {}]

-----------------------------------------------------------------------------
(* Python values and the invoice dictionaries of invoice_tracker.py *)

PyStr(x) == [t |-> "str", v |-> x]

PyInt(n) == [t |-> "int", v |-> n]

\* the float n.0
PyFloat(n) == [t |-> "float", v |-> n]

PyNone == [t |-> "NoneType", v |-> "None"]

\* str(x)
py_str(x) ==
    CASE x.t = "str"      -> x.v
      [] x.t = "NoneType" -> "None"
      [] x.t = "int"      -> ToString(x.v)
      [] x.t = "float"    -> ToString(x.v) \o ".0"

\* the amounts of the model
Amounts == {0, 100, 250}

\* float(x) succeeds: a number, or a string of digits
float_ok(x) ==
    \/ x.t \in {"int", "float"}
    \/ x.t = "str" /\ \E n \in Amounts : ToString(n) = x.v

\* float(x), as the whole number it equals
py_float(x) ==
    IF x.t \in {"int", "float"} THEN x.v
    ELSE CHOOSE n \in Amounts : ToString(n) = x.v

\* dict.get(key, default)
get(dict, key, default) == IF key \in DOMAIN dict THEN dict[key] ELSE default

\* "|".join(fields)
RECURSIVE join(_)
join(fields) ==
    IF Len(fields) = 0 THEN ""
    ELSE IF Len(fields) = 1 THEN fields[1]
    ELSE fields[1] \o "|" \o join(Tail(fields))

\* The SHA-256 digest is modelled by the string it is taken of.
calculate_invoice_hash(invoice) ==
    join(<<py_str(get(invoice, "invoice_no", PyStr(""))),
           py_str(get(invoice, "vendor_name", PyStr(""))),
           py_str(get(invoice, "invoice_date", PyStr(""))),
           py_str(get(invoice, "gstin", PyStr(""))),
           py_str(get(invoice, "pan", PyStr(""))),
           py_str(get(invoice, "hsn_code", PyStr(""))),
           py_str(get(invoice, "taxable_value", PyInt(0))),
           py_str(get(invoice, "total_amount", PyInt(0)))>>)

-----------------------------------------------------------------------------
(* Table invoice_snapshots *)

\* the values save_invoice_snapshot hands to float()
taxable_value_of(invoice) ==
    get(invoice, "Amount", get(invoice, "taxable_value", PyInt(0)))

total_amount_of(invoice) ==
    get(invoice, "Amount", get(invoice, "total_amount", PyInt(0)))

\* building the tuple of the INSERT raises (ValueError from float())
insert_raises(invoice) ==
    ~float_ok(taxable_value_of(invoice)) \/ ~float_ok(total_amount_of(invoice))

\* The row one INSERT OR REPLACE adds.  The table's only key is the
\* AUTOINCREMENT id, which the statement does not give, so the statement never
\* replaces a row.  Column created_at, a clock reading, is left out.
inserted_row(invoice, id, run_date, run_type) ==
    [id               |-> id,
     invoice_no       |-> py_str(get(invoice, "Invoice_Number",
                                     get(invoice, "invoice_no", PyStr("")))),
     vendor_name      |-> py_str(get(invoice, "Vendor_Name",
                                     get(invoice, "vendor_name", PyStr("")))),
     invoice_date     |-> py_str(get(invoice, "Invoice_Date",
                                     get(invoice, "invoice_date", PyStr("")))),
     gstin            |-> py_str(get(invoice, "GST_Number",
                                     get(invoice, "gstin", PyStr("")))),
     pan              |-> py_str(get(invoice, "pan", PyStr(""))),
     hsn_code         |-> py_str(get(invoice, "hsn_code", PyStr(""))),
     taxable_value    |-> py_float(taxable_value_of(invoice)),
     total_amount     |-> py_float(total_amount_of(invoice)),
     hash             |-> calculate_invoice_hash(invoice),
     run_date         |-> run_date,
     run_type         |-> run_type,
     batch_start      |-> run_date,
     batch_end        |-> run_date,
     cumulative_start |-> run_date,
     cumulative_end   |-> run_date,
     archived         |-> 0,
     archived_date    |-> NoDate]

\* The first cursor.execute raises "database is locked": another connection
\* holds the write lock
locked_out(locked, invoice_list) == locked /\ Len(invoice_list) > 0

\* the position of the first invoice whose INSERT raises, Len + 1 if none does
first_failure(locked, invoice_list) ==
    IF locked_out(locked, invoice_list) THEN 1
    ELSE Min({i \in 1..Len(invoice_list) : insert_raises(invoice_list[i])}
                \cup {Len(invoice_list) + 1})

\* the loop over invoice_list raises
save_raises(locked, invoice_list) ==
    first_failure(locked, invoice_list) <= Len(invoice_list)

\* the rows the loop has inserted, inside the open transaction, when it ends
pending_rows(locked, invoice_list, seq, run_date, run_type) ==
    [i \in 1..(first_failure(locked, invoice_list) - 1) |->
        inserted_row(invoice_list[i], seq + i, run_date, run_type)]

\* every pending row is kept, whether or not the loop raised
committed_rows_without_rollback(pending, raised) == pending

\* conn.commit() is reached only when the loop did not raise; the rows of a
\* call that raised stay in the transaction of its connection, which is never
\* committed
committed_rows(pending, raised) == IF raised THEN <<>> ELSE pending

\* table invoice_snapshots after save_invoice_snapshot(invoice_list, run_date)
save_invoice_snapshot(table, seq, locked, invoice_list, run_date, run_type) ==
    table \o committed_rows(
                 pending_rows(locked, invoice_list, seq, run_date, run_type),
                 save_raises(locked, invoice_list))

\* The except branch neither closes the connection nor rolls back: when the
\* loop raised after an INSERT, the connection keeps its transaction and the
\* write lock until the interpreter collects it.
leaves_lock(locked, invoice_list) ==
    /\ save_raises(locked, invoice_list)
    /\ first_failure(locked, invoice_list) > 1

\* archived = 0 OR archived IS NULL
is_live(row) == row.archived = 0

\* run_date > ? AND run_date < ?
in_date_range_exclusive(row, start_date, end_date) ==
    start_date < row.run_date /\ row.run_date < end_date

\* run_date >= ? AND run_date <= ?
in_date_range(row, start_date, end_date) ==
    start_date <= row.run_date /\ row.run_date <= end_date

\* the entry get_invoice_snapshots_by_date_range builds of a row
snapshot_entry(row) ==
    [run_date     |-> row.run_date,
     invoice_data |-> <<[invoice_no    |-> row.invoice_no,
                         vendor_name   |-> row.vendor_name,
                         invoice_date  |-> row.invoice_date,
                         gstin         |-> row.gstin,
                         pan           |-> row.pan,
                         hsn_code      |-> row.hsn_code,
                         taxable_value |-> row.taxable_value,
                         total_amount  |-> row.total_amount,
                         hash          |-> row.hash]>>,
     run_type     |-> row.run_type]

\* the entries of the live rows of table with run_date = day, in rowid order
RECURSIVE entries_of_day(_, _, _, _)
entries_of_day(table, day, start_date, end_date) ==
    IF Len(table) = 0 THEN <<>>
    ELSE (IF /\ Head(table).run_date = day
             /\ in_date_range(Head(table), start_date, end_date)
             /\ is_live(Head(table))
          THEN <<snapshot_entry(Head(table))>> ELSE <<>>)
         \o entries_of_day(Tail(table), day, start_date, end_date)

\* ORDER BY run_date: the days in ascending order, the rows of one day in
\* rowid order
RECURSIVE entries_from_day(_, _, _, _)
entries_from_day(table, day, start_date, end_date) ==
    IF day > end_date THEN <<>>
    ELSE entries_of_day(table, day, start_date, end_date)
            \o entries_from_day(table, day + 1, start_date, end_date)

get_invoice_snapshots_by_date_range(table, start_date, end_date) ==
    entries_from_day(table, start_date, start_date, end_date)

-----------------------------------------------------------------------------
(* Tables run_log and run_windows *)

\* The row record_run_window inserts into run_log.  Columns run_timestamp and
\* created_at, clock readings with the time of day, are left out.
run_log_row(id, start_date, end_date, run_date, run_type) ==
    [id                   |-> id,
     start_date           |-> start_date,
     end_date             |-> end_date,
     run_date             |-> run_date,
     run_type             |-> run_type,
     cumulative_start     |-> start_date,
     cumulative_end       |-> end_date,
     total_days_validated |-> 1,
     archived             |-> 0,
     archived_date        |-> NoDate]

\* The row record_run_window inserts into run_windows; created_at is left out.
run_windows_row(id, start_date, end_date, run_date, run_type) ==
    [id                   |-> id,
     start_date           |-> start_date,
     end_date             |-> end_date,
     run_date             |-> run_date,
     run_type             |-> run_type,
     cumulative_start     |-> start_date,
     cumulative_end       |-> end_date,
     total_days_validated |-> 1,
     archived             |-> 0,
     archived_date        |-> NoDate]

\* UNIQUE(start_date, end_date, run_date)
same_window(a, b) ==
    /\ a.start_date = b.start_date
    /\ a.end_date = b.end_date
    /\ a.run_date = b.run_date

\* INSERT INTO: the row is added whatever the table holds
insert(table, row) == Append(table, row)

\* INSERT OR REPLACE INTO a table with the UNIQUE constraint: the rows the new
\* row conflicts with are deleted, then the row is added
insert_or_replace(table, row) ==
    Append(SelectSeq(table, LAMBDA old : ~same_window(old, row)), row)

\* tables run_log and run_windows after record_run_window(start_date, end_date)
\* on day current_run_date; with the database locked the first INSERT raises
\* and nothing is written
record_run_window(log, windows, log_seq, windows_seq, locked, start_date, end_date, run_type, current_run_date) ==
    IF locked THEN [run_log |-> log, run_windows |-> windows]
    ELSE [run_log     |-> insert(log,
                             run_log_row(log_seq + 1, start_date, end_date,
                                         current_run_date, run_type)),
          run_windows |-> insert_or_replace(windows,
                             run_windows_row(windows_seq + 1, start_date, end_date,
                                             current_run_date, run_type))]

\* UPDATE ... SET archived = 1, archived_date = ? WHERE start_date < ? AND
\* (archived = 0 OR archived IS NULL), on run_windows and on run_log
archive_by_start_date(table, cutoff_date, day) ==
    [i \in 1..Len(table) |->
        IF table[i].start_date < cutoff_date /\ table[i].archived = 0
        THEN [table[i] EXCEPT !.archived = 1, !.archived_date = day]
        ELSE table[i]]

\* UPDATE invoice_snapshots SET archived = 1, archived_date = ? WHERE
\* run_date < ? AND (archived = 0 OR archived IS NULL)
archive_by_run_date(table, cutoff_date, day) ==
    [i \in 1..Len(table) |->
        IF table[i].run_date < cutoff_date /\ table[i].archived = 0
        THEN [table[i] EXCEPT !.archived = 1, !.archived_date = day]
        ELSE table[i]]

\* the three tables after archive_validation_records_before_date(cutoff_date)
\* on day `day`; with the database locked the first UPDATE raises and nothing
\* is written
archive_validation_records_before_date(windows, log, snapshots, locked, cutoff_date, day) ==
    IF locked
    THEN [run_windows |-> windows, run_log |-> log, invoice_snapshots |-> snapshots]
    ELSE [run_windows       |-> archive_by_start_date(windows, cutoff_date, day),
          run_log           |-> archive_by_start_date(log, cutoff_date, day),
          invoice_snapshots |-> archive_by_run_date(snapshots, cutoff_date, day)]

\* the start dates of the rows of a table
start_dates(table) == {table[i].start_date : i \in 1..Len(table)}

\* the live rows of a table: archived = 0 OR archived IS NULL
live_rows(table) == SelectSeq(table, LAMBDA row : row.archived = 0)

\* get_first_validation_date() without the WHERE clauses on archived
get_first_validation_date_of_all_rows(windows, log) ==
    IF start_dates(windows) # {} THEN Min(start_dates(windows))
    ELSE IF start_dates(log) # {} THEN Min(start_dates(log))
    ELSE NoDate

\* get_first_validation_date(): MIN(start_date) of the live rows of
\* run_windows, else MIN(start_date) of the live rows of run_log, else None
get_first_validation_date(windows, log) ==
    IF start_dates(live_rows(windows)) # {} THEN Min(start_dates(live_rows(windows)))
    ELSE IF start_dates(live_rows(log)) # {} THEN Min(start_dates(live_rows(log)))
    ELSE NoDate

-----------------------------------------------------------------------------
(* The specification of the comparison: a current frame and a snapshot      *)
(* directory holding at most one earlier snapshot, then one call of         *)
(* compare_with_snapshot.                                                   *)

Dates == 1..MaxDate

SnapshotNames == {SnapshotFile(d, s) : d \in Dates, s \in 0..1}

EmptyDir == [f \in SnapshotNames |-> Absent]

CompareColumns == {"InvID", "Vendor"}

\* rows of a current frame: a cell may be padded or the empty string
CurrentRows == [InvID : {"K1", "K2", NaN}, Vendor : {"x", " x", ""}]

\* rows of a frame read back from a snapshot file
PreviousRows == [InvID : {"K1", "K2", NaN}, Vendor : {"x", NaN}]

CurrentFrames == {Frame(CompareColumns, rows) : rows \in SeqsUpTo(CurrentRows, MaxRows)}

PreviousContents ==
    {Absent, Unreadable}
        \cup {Xlsx(Frame(CompareColumns, rows)) : rows \in SeqsUpTo(PreviousRows, MaxRows)}

NoCall == [op |-> "none"]

NoRead == [kind |-> "none"]

RunDates == 1..MaxRunDate


\* the store after create_tables, before any call
StoreIdle ==
    /\ db = <<>>
    /\ sqlite_sequence = 0
    /\ write_lock = FALSE
    /\ last_call = NoCall
    /\ read_result = NoRead

\* tables run_log and run_windows after create_tables, on the first day
RunsIdle ==
    /\ run_log = <<>>
    /\ run_windows = <<>>
    /\ run_log_sequence = 0
    /\ run_windows_sequence = 0
    /\ current_date = 1
    /\ last_cutoff_date = NoDate

\* ProductionInvoiceValidationSystem.__init__: the processing state of a new run
new_processing_results ==
    [total_processed  |-> 0,
     successful       |-> 0,
     failed           |-> 0,
     errors           |-> 0,
     attachment_files |-> <<>>,
     overall_status   |-> "pending"]

NotExited == [kind |-> "running"]

\* the processes that call run_validation_workflow: the scheduler's job and a
\* run started by hand
Runs == {"scheduled", "manual"}

NotStarted == [pc |-> "not_started"]

\* calculate_invoice_hash has not been called
NoHash == [kind |-> "none"]

\* {}
EmptyDict == [k \in {} |-> PyStr("")]

\* no date range has been requested, no folder has been scanned
NoBatch == [kind |-> "none"]

\* the scheduler is not running: no job is scheduled
NoJob == [kind |-> "none"]

EntryIdle ==
    /\ processing_results = new_processing_results
    /\ exit_status = NotExited
    /\ runs = [r \in Runs |-> NotStarted]
    /\ job = NoJob
    /\ requested = NoBatch
    /\ scanned = NoBatch

\* the function has not been called
NotCalled == [kind |-> "none"]

CallsIdle ==
    /\ validation = NotCalled
    /\ choice = NotCalled
    /\ scheduled_jobs = <<>>
    /\ local_files = NotCalled
    /\ update = NotCalled

HashIdle ==
    /\ invoices = <<EmptyDict, EmptyDict>>
    /\ hashes = NoHash

PendingPath == [kind |-> "pending"]

NotCompared ==
    /\ previous_snapshot_path = PendingPath
    /\ previous_df = NoFrame
    /\ effective_primary_key = None
    /\ comparison_result = NoResult
    /\ delta = NoResult

InitCompare ==
    /\ df \in CurrentFrames
    /\ \E content \in PreviousContents :
           snapshot_dir = [EmptyDir EXCEPT ![SnapshotFile(1, 0)] = content]
    /\ today = 2
    /\ NotCompared
    /\ StoreIdle
    /\ RunsIdle
    /\ EntryIdle
    /\ CallsIdle
    /\ HashIdle

\* delta = compare_with_snapshot(df, snapshot_dir, today), primary_key='InvID'
CompareWithSnapshot ==
    /\ delta = NoResult
    /\ previous_snapshot_path' =
           IF IsEmpty(df) THEN previous_snapshot_path
           ELSE find_latest_snapshot(snapshot_dir, today)
    /\ previous_df' = loaded_previous(df, snapshot_dir, today)
    /\ effective_primary_key' = chosen_key(df, snapshot_dir, today, "InvID")
    /\ comparison_result' = detailed_comparison(df, snapshot_dir, today, "InvID")
    /\ delta' = compare_with_snapshot(df, snapshot_dir, today, "InvID")
    /\ UNCHANGED <<df, snapshot_dir, today>>
    /\ UNCHANGED dbVars
    /\ UNCHANGED runVars
    /\ UNCHANGED entryVars
    /\ UNCHANGED callVars

NextCompare == CompareWithSnapshot

SpecCompare == InitCompare /\ [][NextCompare]_vars

-----------------------------------------------------------------------------
(* The specification of the key selection: a current frame of up to         *)
(* MaxKeyRows rows with two candidate columns, a previous frame with or     *)
(* without the preferred column, then one call of determine_primary_key.    *)

Pending == "<pending>"

KeyColumns == {"InvID", "Invoice_No"}

KeyRows == [InvID : {"k1", "k2", "k3", "k4", NaN}, Invoice_No : {"n1", "n2"}]

KeyFrames == {Frame(KeyColumns, rows) : rows \in SeqsUpTo(KeyRows, MaxKeyRows)}

KeyPreviousFrames ==
    {Frame(KeyColumns, <<[InvID |-> "k1", Invoice_No |-> "n1"]>>),
     Frame({"Invoice_No"}, <<[Invoice_No |-> "n1"]>>)}

InitKey ==
    /\ df \in KeyFrames
    /\ previous_df \in KeyPreviousFrames
    /\ effective_primary_key = Pending
    /\ previous_snapshot_path = PendingPath
    /\ snapshot_dir = EmptyDir
    /\ today = 1
    /\ comparison_result = NoResult
    /\ delta = NoResult
    /\ StoreIdle
    /\ RunsIdle
    /\ EntryIdle
    /\ CallsIdle
    /\ HashIdle

\* effective_primary_key = determine_primary_key(df, previous_df, primary_key)
DeterminePrimaryKey ==
    /\ effective_primary_key = Pending
    /\ effective_primary_key' = determine_primary_key(df, previous_df, "InvID")
    /\ UNCHANGED <<df, snapshot_dir, today, previous_snapshot_path, previous_df,
                   comparison_result, delta>>
    /\ UNCHANGED dbVars
    /\ UNCHANGED runVars
    /\ UNCHANGED entryVars
    /\ UNCHANGED callVars

NextKey == DeterminePrimaryKey

SpecKey == InitKey /\ [][NextKey]_vars

-----------------------------------------------------------------------------
(* The specification of the snapshot directory: snapshots are saved for     *)
(* any day, in any order, and looked up.                                    *)

SnapshotFrames ==
    {Frame(CompareColumns, <<[InvID |-> "K1", Vendor |-> "x"]>>),
     Frame(CompareColumns, <<>>)}

\* the days datetime.now() may give when the snapshot of day is saved
NowDays(day) == {day, day + KeepDays}

InitSnapshots ==
    /\ df = Frame(CompareColumns, <<>>)
    /\ snapshot_dir = EmptyDir
    /\ today = 1
    /\ NotCompared
    /\ StoreIdle
    /\ RunsIdle
    /\ EntryIdle
    /\ CallsIdle
    /\ HashIdle

\* save_snapshot(df, snapshot_dir, today)
SaveSnapshot ==
    \E frame \in SnapshotFrames, day \in Dates :
        \E now \in NowDays(day) :
            /\ df' = frame
            /\ today' = day
            /\ snapshot_dir' = save_snapshot(frame, snapshot_dir, day, now, 1)
            /\ previous_snapshot_path' = PendingPath
            /\ UNCHANGED <<previous_df, effective_primary_key, comparison_result, delta>>
            /\ UNCHANGED dbVars
            /\ UNCHANGED runVars
            /\ UNCHANGED entryVars
            /\ UNCHANGED callVars

\* previous_snapshot_path = find_latest_snapshot(snapshot_dir, today_str)
FindLatestSnapshot ==
    \E day \in Dates :
        /\ today' = day
        /\ previous_snapshot_path' = find_latest_snapshot(snapshot_dir, day)
        /\ UNCHANGED <<df, snapshot_dir, previous_df, effective_primary_key,
                       comparison_result, delta>>
        /\ UNCHANGED dbVars
        /\ UNCHANGED runVars
        /\ UNCHANGED entryVars
        /\ UNCHANGED callVars

NextSnapshots == SaveSnapshot \/ FindLatestSnapshot

SpecSnapshots == InitSnapshots /\ [][NextSnapshots]_vars

-----------------------------------------------------------------------------
(* The specification of the store: lists of invoices are saved for run      *)
(* dates and read back.                                                     *)

InvoiceDicts ==
    {("invoice_no" :> PyStr("A")) @@ ("total_amount" :> PyInt(100)),
     ("invoice_no" :> PyStr("B")) @@ ("total_amount" :> PyStr("abc")),
     ("Invoice_Number" :> PyStr("A")) @@ ("Amount" :> PyInt(100))}

InvoiceLists == SeqsUpTo(InvoiceDicts, MaxList)

InitStore ==
    /\ df = Frame(CompareColumns, <<>>)
    /\ snapshot_dir = EmptyDir
    /\ today = 1
    /\ NotCompared
    /\ StoreIdle
    /\ RunsIdle
    /\ EntryIdle
    /\ CallsIdle
    /\ HashIdle

\* save_invoice_snapshot(invoice_list, run_date) for one of the lists
SaveInvoiceSnapshotOf(lists) ==
    \E invoice_list \in lists, run_date \in RunDates :
        /\ Len(db) + Len(invoice_list) <= MaxDbRows
        /\ db' = save_invoice_snapshot(db, sqlite_sequence, write_lock,
                                       invoice_list, run_date, "standard")
        /\ sqlite_sequence' = sqlite_sequence + (Len(db') - Len(db))
        /\ write_lock' = (write_lock \/ leaves_lock(write_lock, invoice_list))
        /\ last_call' = [op           |-> "save_invoice_snapshot",
                         invoice_list |-> invoice_list,
                         run_date     |-> run_date,
                         raised       |-> save_raises(write_lock, invoice_list),
                         inserted     |-> first_failure(write_lock, invoice_list) - 1,
                         fresh        |-> \A i \in 1..Len(db) : db[i].run_date # run_date]
        /\ read_result' = NoRead
        /\ UNCHANGED fileVars
        /\ UNCHANGED runVars
        /\ UNCHANGED entryVars
        /\ UNCHANGED callVars

SaveInvoiceSnapshot == SaveInvoiceSnapshotOf(InvoiceLists)

\* get_invoice_snapshots_by_date_range(run_date, run_date): the rows of one day
GetInvoiceSnapshotsByDateRange ==
    \E run_date \in RunDates :
        /\ read_result' = [start_date |-> run_date,
                           end_date   |-> run_date,
                           snapshots  |-> get_invoice_snapshots_by_date_range(
                                              db, run_date, run_date)]
        /\ UNCHANGED <<db, sqlite_sequence, write_lock, last_call>>
        /\ UNCHANGED fileVars
        /\ UNCHANGED runVars
        /\ UNCHANGED entryVars
        /\ UNCHANGED callVars

\* The interpreter collects the connection a failed save left behind: its
\* transaction is rolled back and the write lock released.
CollectDroppedConnection ==
    /\ write_lock
    /\ write_lock' = FALSE
    /\ UNCHANGED <<db, sqlite_sequence, last_call, read_result>>
    /\ UNCHANGED fileVars
    /\ UNCHANGED runVars
    /\ UNCHANGED entryVars
    /\ UNCHANGED callVars

NextStore ==
    \/ SaveInvoiceSnapshot
    \/ GetInvoiceSnapshotsByDateRange
    \/ CollectDroppedConnection

SpecStore == InitStore /\ [][NextStore]_vars

\* Invoices under either spelling of the keys: the keys of the ledger extract
\* (Invoice_Number, Amount) and the keys of the table (invoice_no,
\* total_amount)
SpelledDicts ==
    {("Invoice_Number" :> PyStr("A")) @@ ("Amount" :> PyInt(100)),
     ("Invoice_Number" :> PyStr("B")) @@ ("Amount" :> PyInt(250)),
     ("invoice_no" :> PyStr("A")) @@ ("total_amount" :> PyInt(100)),
     ("invoice_no" :> PyStr("B")) @@ ("total_amount" :> PyInt(250))}

SaveSpelledInvoices == SaveInvoiceSnapshotOf(SeqsUpTo(SpelledDicts, MaxList))

NextSpelling ==
    \/ SaveSpelledInvoices
    \/ GetInvoiceSnapshotsByDateRange

SpecSpelling == InitStore /\ [][NextSpelling]_vars

-----------------------------------------------------------------------------
(* The specification of the run windows: run windows are recorded day after *)
(* day, the invoices of a run are saved, and old records are archived.      *)

\* the windows (start_date, end_date) a run validates
Windows == {w \in RunDates \X RunDates : w[1] <= w[2]}

InitRuns ==
    /\ df = Frame(CompareColumns, <<>>)
    /\ snapshot_dir = EmptyDir
    /\ today = 1
    /\ NotCompared
    /\ StoreIdle
    /\ RunsIdle
    /\ EntryIdle
    /\ CallsIdle
    /\ HashIdle

\* record_run_window(start_date, end_date), of a window that has ended
RecordRunWindow ==
    \E w \in {v \in Windows : v[2] <= current_date} :
        LET tables == record_run_window(run_log, run_windows, run_log_sequence,
                                        run_windows_sequence, write_lock,
                                        w[1], w[2], "standard", current_date)
        IN  /\ Len(run_log) < MaxRunRows
            /\ run_log' = tables.run_log
            /\ run_windows' = tables.run_windows
            /\ run_log_sequence' = run_log_sequence + (Len(run_log') - Len(run_log))
            /\ run_windows_sequence' =
                   run_windows_sequence + (Len(run_log') - Len(run_log))
            /\ last_cutoff_date' = NoDate
            /\ UNCHANGED current_date
            /\ UNCHANGED dbVars
            /\ UNCHANGED fileVars
            /\ UNCHANGED entryVars
            /\ UNCHANGED callVars

\* save_invoice_snapshot(invoice_list, run_date) with the invoice of the run
SaveRunSnapshot ==
    /\ Len(db) < MaxDbRows
    /\ db' = save_invoice_snapshot(db, sqlite_sequence, write_lock,
                 <<("invoice_no" :> PyStr("A")) @@ ("total_amount" :> PyInt(100))>>,
                 current_date, "standard")
    /\ sqlite_sequence' = sqlite_sequence + (Len(db') - Len(db))
    /\ last_cutoff_date' = NoDate
    /\ UNCHANGED <<write_lock, last_call, read_result>>
    /\ UNCHANGED <<run_log, run_windows, run_log_sequence, run_windows_sequence,
                   current_date>>
    /\ UNCHANGED fileVars
    /\ UNCHANGED entryVars
    /\ UNCHANGED callVars

\* archive_validation_records_before_date(cutoff_date)
ArchiveValidationRecordsBeforeDate ==
    \E cutoff_date \in RunDates :
        LET tables == archive_validation_records_before_date(
                          run_windows, run_log, db, write_lock,
                          cutoff_date, current_date)
        IN  /\ run_windows' = tables.run_windows
            /\ run_log' = tables.run_log
            /\ db' = tables.invoice_snapshots
            /\ last_cutoff_date' = cutoff_date
            /\ UNCHANGED <<run_log_sequence, run_windows_sequence, current_date>>
            /\ UNCHANGED <<sqlite_sequence, write_lock, last_call, read_result>>
            /\ UNCHANGED fileVars
            /\ UNCHANGED entryVars
            /\ UNCHANGED callVars

\* midnight: datetime.now() reads the next day
NextDay ==
    /\ current_date < MaxRunDate
    /\ current_date' = current_date + 1
    /\ last_cutoff_date' = NoDate
    /\ UNCHANGED <<run_log, run_windows, run_log_sequence, run_windows_sequence>>
    /\ UNCHANGED dbVars
    /\ UNCHANGED fileVars
    /\ UNCHANGED entryVars
    /\ UNCHANGED callVars

NextRuns ==
    \/ RecordRunWindow
    \/ SaveRunSnapshot
    \/ ArchiveValidationRecordsBeforeDate
    \/ NextDay

SpecRuns == InitRuns /\ [][NextRuns]_vars

\* the run-window tables alone: windows are recorded and archived
NextWindows ==
    \/ RecordRunWindow
    \/ ArchiveValidationRecordsBeforeDate
    \/ NextDay

SpecWindows == InitRuns /\ [][NextWindows]_vars

-----------------------------------------------------------------------------
(* The specification of the same-day re-run: compare_with_snapshot and      *)
(* save_snapshot for a day, then compare_with_snapshot for the day again.   *)

RerunRows == [InvID : {"K1", "K2"}, Vendor : {"x", NaN}]

RerunFrames == {Frame(CompareColumns, rows) : rows \in SeqsUpTo(RerunRows, MaxRows)}

\* what a snapshot file of another day holds
RerunContents == {Absent, Unreadable} \cup {Xlsx(frame) : frame \in RerunFrames}

\* the snapshot of a later day, as a run on an older data folder finds it
LaterContents ==
    {Absent, Xlsx(Frame(CompareColumns, <<[InvID |-> "K1", Vendor |-> NaN]>>))}

\* the run is on day 2; the directory may hold the snapshots of day 1 and of
\* day 3 and the snapshot an earlier run of day 2 wrote
InitRerun ==
    /\ df \in RerunFrames
    /\ \E earlier \in RerunContents, same \in LaterContents, later \in LaterContents :
           snapshot_dir = [EmptyDir EXCEPT ![SnapshotFile(1, 0)] = earlier,
                                           ![SnapshotFile(2, 0)] = same,
                                           ![SnapshotFile(3, 0)] = later]
    /\ today = 2
    /\ NotCompared
    /\ StoreIdle
    /\ RunsIdle
    /\ EntryIdle
    /\ CallsIdle
    /\ HashIdle

\* save_snapshot(df, snapshot_dir, today) after the comparison of the run
SaveComparedSnapshot ==
    /\ delta # NoResult
    /\ \E clock \in NowDays(today) :
           snapshot_dir' = save_snapshot(df, snapshot_dir, today, clock, 1)
    /\ UNCHANGED <<df, today, previous_snapshot_path, previous_df,
                   effective_primary_key, comparison_result, delta>>
    /\ UNCHANGED dbVars
    /\ UNCHANGED runVars
    /\ UNCHANGED entryVars
    /\ UNCHANGED callVars

\* compare_with_snapshot(df, snapshot_dir, today) of the re-run
CompareAgain ==
    /\ delta # NoResult
    /\ previous_snapshot_path' =
           IF IsEmpty(df) THEN previous_snapshot_path
           ELSE find_latest_snapshot(snapshot_dir, today)
    /\ previous_df' = loaded_previous(df, snapshot_dir, today)
    /\ effective_primary_key' = chosen_key(df, snapshot_dir, today, "InvID")
    /\ comparison_result' = detailed_comparison(df, snapshot_dir, today, "InvID")
    /\ delta' = compare_with_snapshot(df, snapshot_dir, today, "InvID")
    /\ UNCHANGED <<df, snapshot_dir, today>>
    /\ UNCHANGED dbVars
    /\ UNCHANGED runVars
    /\ UNCHANGED entryVars
    /\ UNCHANGED callVars

NextRerun ==
    \/ CompareWithSnapshot
    \/ SaveComparedSnapshot
    \/ CompareAgain

SpecRerun == InitRerun /\ [][NextRerun]_vars

-----------------------------------------------------------------------------
(* The specification of the validation run: run_validation_workflow of      *)
(* validator.py from the loading of the ledger extract to the saving of the *)
(* snapshot.  The validation columns the run adds to the frame, the result  *)
(* file and the e-mail are left out.                                        *)

\* create_sample_data(): five sample invoices
create_sample_data ==
    Frame({"InvID", "PartyName"},
          <<[InvID |-> "INV001", PartyName |-> "Vendor A Pvt Ltd"],
            [InvID |-> "INV002", PartyName |-> "Vendor B Pvt Ltd"],
            [InvID |-> "INV003", PartyName |-> "Vendor C Pvt Ltd"],
            [InvID |-> "INV004", PartyName |-> "Vendor D Pvt Ltd"],
            [InvID |-> "INV005", PartyName |-> "Vendor E Pvt Ltd"]>>)

\* df is None or df.empty, of what load_actual_invoice_data returned
extract_is_missing(extract) ==
    IF extract = NoFrame THEN TRUE ELSE IsEmpty(extract)

\* the frame the run validates, compares and saves
validated_frame(extract) ==
    IF extract_is_missing(extract) THEN create_sample_data ELSE extract

\* what load_actual_invoice_data returns: None when the extract is absent or
\* unreadable, else the frame of the extract, which may have no rows
Extracts == {NoFrame} \cup RerunFrames

\* the run is on day 2, with the extract loaded into df; the directory may hold
\* the snapshot of day 1 and the snapshot an earlier run of day 2 wrote
InitWorkflow ==
    /\ df \in Extracts
    /\ \E earlier \in RerunContents, same \in LaterContents :
           snapshot_dir = [EmptyDir EXCEPT ![SnapshotFile(1, 0)] = earlier,
                                           ![SnapshotFile(2, 0)] = same]
    /\ today = 2
    /\ NotCompared
    /\ StoreIdle
    /\ RunsIdle
    /\ EntryIdle
    /\ CallsIdle
    /\ HashIdle

\* run_validation_workflow(), steps 4 to 8
RunValidationWorkflow ==
    /\ delta = NoResult
    /\ LET data == validated_frame(df)
       IN  /\ df' = data
           /\ previous_snapshot_path' = find_latest_snapshot(snapshot_dir, today)
           /\ previous_df' = loaded_previous(data, snapshot_dir, today)
           /\ effective_primary_key' = chosen_key(data, snapshot_dir, today, "InvID")
           /\ comparison_result' = detailed_comparison(data, snapshot_dir, today, "InvID")
           /\ delta' = compare_with_snapshot(data, snapshot_dir, today, "InvID")
           /\ \E clock \in NowDays(today) :
                  snapshot_dir' = save_snapshot(data, snapshot_dir, today, clock, 1)
    /\ UNCHANGED today
    /\ UNCHANGED dbVars
    /\ UNCHANGED runVars
    /\ UNCHANGED entryVars
    /\ UNCHANGED callVars

NextWorkflow == RunValidationWorkflow

SpecWorkflow == InitWorkflow /\ [][NextWorkflow]_vars

-----------------------------------------------------------------------------
\* The production entry point: main() and run_validation_process.

MaxFiles == 3
MaxInvoices == 2

\* A file of the downloads directory: whether it can be read, whether
\* validate_invoice_data accepts it, and how many invoices
\* process_invoice_dataframe processes from it.
DownloadedFiles ==
    {f \in [readable : BOOLEAN, valid : BOOLEAN, invoices : 0..MaxInvoices] :
        /\ ~f.readable => ~f.valid
        /\ ~f.valid => f.invoices = 0}

\* a local variable: unbound, or bound to a value
Unbound == <<>>

Bound(v) == <<v>>

\* One iteration of the loop of process_local_files.  st holds
\* processing_results, the list processed_files and the local processed_count,
\* which is unbound until a valid file has set it.
process_file(st, f) ==
    LET count_failure(r) == [r EXCEPT !.failed = @ + 1, !.errors = @ + 1]
        raised(r) == [st EXCEPT !.results = count_failure(r)]
    IN  IF ~f.readable THEN raised(st.results)
        ELSE IF f.valid
        THEN IF f.invoices > 0
             THEN [results         |-> [st.results EXCEPT
                                           !.successful = @ + 1,
                                           !.total_processed = @ + f.invoices],
                   processed_files |-> Append(st.processed_files, f),
                   processed_count |-> Bound(f.invoices)]
             ELSE [results         |-> count_failure(st.results),
                   processed_files |-> st.processed_files,
                   processed_count |-> Bound(0)]
        ELSE LET r == count_failure(st.results)
             IN  IF st.processed_count = Unbound
                 THEN raised(r)
                 ELSE [st EXCEPT !.results =
                          [r EXCEPT !.total_processed = @ + st.processed_count[1]]]

RECURSIVE process_files(_, _)
process_files(st, files) ==
    IF files = <<>> THEN st
    ELSE process_files(process_file(st, Head(files)), Tail(files))

\* process_local_files(): listing_fails is an exception outside the loop
process_local_files(results, files, listing_fails) ==
    IF listing_fails
    THEN [results         |-> [results EXCEPT !.errors = @ + 1],
          processed_files |-> <<>>,
          processed_count |-> Unbound]
    ELSE process_files([results         |-> results,
                        processed_files |-> <<>>,
                        processed_count |-> Unbound], files)

\* 'success' if processed_count > 0 else 'failed'
overall_status(processed_count) ==
    IF processed_count > 0 THEN "success" ELSE "failed"

Attachments == {<<>>, <<"summary">>, <<"invoices_zip">>, <<"summary", "invoices_zip">>,
                <<"summary", "error_log">>, <<"summary", "invoices_zip", "error_log">>}

\* run_validation_process(): the value it returns and the results it leaves.
\* Every step runs inside its own try block, so a failing step is logged and
\* the run goes on; the function returns True at the end of the outer block.
run_validation_process(results, files, listing_fails, attachments) ==
    LET processed == process_local_files(results, files, listing_fails)
        processed_count == Len(processed.processed_files)
    IN  [success |-> TRUE,
         results |-> [processed.results EXCEPT
                         !.attachment_files = attachments,
                         !.overall_status = overall_status(processed_count)]]

\* sys.exit(0) if success else sys.exit(1)
exit_code(success) == IF success THEN 0 ELSE 1

Exited(code) == [kind |-> "exited", code |-> code]

InitMain ==
    /\ df = Frame(CompareColumns, <<>>)
    /\ snapshot_dir = EmptyDir
    /\ today = 1
    /\ NotCompared
    /\ StoreIdle
    /\ RunsIdle
    /\ EntryIdle
    /\ CallsIdle
    /\ HashIdle

\* main(): a run of the production entry point, to its exit
Main ==
    /\ exit_status = NotExited
    /\ \E files \in SeqsUpTo(DownloadedFiles, MaxFiles), listing_fails \in BOOLEAN,
          attachments \in Attachments, constructed \in BOOLEAN :
            IF constructed
            THEN LET run == run_validation_process(processing_results, files,
                                                   listing_fails, attachments)
                 IN  /\ processing_results' = run.results
                     /\ exit_status' = Exited(exit_code(run.success))
            ELSE /\ processing_results' = processing_results
                 /\ exit_status' = Exited(1)
    /\ UNCHANGED <<runs, job, requested, scanned>>
    /\ UNCHANGED hashVars
    /\ UNCHANGED callVars
    /\ UNCHANGED fileVars
    /\ UNCHANGED dbVars
    /\ UNCHANGED runVars

NextMain == Main

SpecMain == InitMain /\ [][NextMain]_vars

-----------------------------------------------------------------------------
(* Two invocations of run_validation_workflow on the same day, each an      *)
(* operating-system process of its own: the job of the scheduler and a run  *)
(* started by hand.  Each reads the extract, compares it with the snapshot  *)
(* directory and saves its snapshot; the directory is what they share.      *)

\* the run is between its first statement and its return
in_progress(run) == run.pc \in {"loaded", "compared"}

\* the run of day 2 finds the snapshot of day 1 or none
InitOverlap ==
    /\ df = Frame(CompareColumns, <<>>)
    /\ \E earlier \in LaterContents :
           snapshot_dir = [EmptyDir EXCEPT ![SnapshotFile(1, 0)] = earlier]
    /\ today = 2
    /\ NotCompared
    /\ StoreIdle
    /\ RunsIdle
    /\ EntryIdle
    /\ CallsIdle
    /\ HashIdle

\* run_validation_workflow(), steps 1 to 4: the run starts and loads its data
StartRun(r) ==
    /\ runs[r].pc = "not_started"
    /\ \E extract \in Extracts :
           runs' = [runs EXCEPT ![r] = [pc |-> "loaded",
                                        df |-> validated_frame(extract)]]
    /\ UNCHANGED <<processing_results, exit_status, job, requested, scanned>>
    /\ UNCHANGED hashVars
    /\ UNCHANGED callVars
    /\ UNCHANGED fileVars
    /\ UNCHANGED dbVars
    /\ UNCHANGED runVars

\* step 7: delta_report = compare_with_snapshot(df, snapshot_dir, today)
CompareStep(r) ==
    /\ runs[r].pc = "loaded"
    /\ runs' = [runs EXCEPT ![r] =
                   [pc    |-> "compared",
                    df    |-> runs[r].df,
                    delta |-> compare_with_snapshot(runs[r].df, snapshot_dir,
                                                    today, "InvID").stats]]
    /\ UNCHANGED <<processing_results, exit_status, job, requested, scanned>>
    /\ UNCHANGED hashVars
    /\ UNCHANGED callVars
    /\ UNCHANGED fileVars
    /\ UNCHANGED dbVars
    /\ UNCHANGED runVars

\* step 8: save_snapshot(df, snapshot_dir, today), and the return
SaveStep(r) ==
    /\ runs[r].pc = "compared"
    /\ snapshot_dir' = save_snapshot(runs[r].df, snapshot_dir, today, today, 1)
    /\ runs' = [runs EXCEPT ![r] = [pc |-> "returned", delta |-> runs[r].delta]]
    /\ UNCHANGED <<processing_results, exit_status, job, requested, scanned>>
    /\ UNCHANGED hashVars
    /\ UNCHANGED callVars
    /\ UNCHANGED <<df, today, previous_snapshot_path, previous_df,
                   effective_primary_key, comparison_result, delta>>
    /\ UNCHANGED dbVars
    /\ UNCHANGED runVars

NextOverlap ==
    \E r \in Runs :
        \/ StartRun(r)
        \/ CompareStep(r)
        \/ SaveStep(r)

SpecOverlap == InitOverlap /\ [][NextOverlap]_vars

-----------------------------------------------------------------------------
(* The scheduler: start_scheduler registers one job with                    *)
(* schedule.every(4).days.at("18:00") and polls run_pending every minute.   *)
(* Time is counted in days.  Run windows are recorded by record_run_window, *)
(* whichever run calls it.                                                  *)

MaxSchedulerDay == 7

\* schedule.every(4).days
CadenceDays == 4

\* get_last_run_date(): MAX(run_date) of the live rows of run_windows, else
\* MAX(end_date) of the live rows of run_log, else None
get_last_run_date(windows, log) ==
    LET run_dates == {windows[i].run_date :
                         i \in {j \in 1..Len(windows) : windows[j].archived = 0}}
        end_dates == {log[i].end_date :
                         i \in {j \in 1..Len(log) : log[j].archived = 0}}
    IN  IF run_dates # {} THEN Max(run_dates)
        ELSE IF end_dates # {} THEN Max(end_dates)
        ELSE NoDate

\* Job._schedule_next_run of the schedule library: the period after now
schedule_next_run(now) == now + CadenceDays

\* Job.should_run of the schedule library
should_run(j, now) == now >= j.next_run

InitScheduler ==
    /\ df = Frame(CompareColumns, <<>>)
    /\ snapshot_dir = EmptyDir
    /\ today = 1
    /\ NotCompared
    /\ StoreIdle
    /\ RunsIdle
    /\ EntryIdle
    /\ CallsIdle
    /\ HashIdle

\* start_scheduler(), to the first pass of its loop
StartScheduler ==
    /\ job = NoJob
    /\ job' = [last_run |-> NoDate, next_run |-> schedule_next_run(current_date)]
    /\ UNCHANGED <<processing_results, exit_status, runs, requested, scanned>>
    /\ UNCHANGED hashVars
    /\ UNCHANGED callVars
    /\ UNCHANGED fileVars
    /\ UNCHANGED dbVars
    /\ UNCHANGED runVars

\* schedule.run_pending() with the job due: scheduled_validation_job starts
RunPending ==
    /\ job # NoJob
    /\ should_run(job, current_date)
    /\ job' = [last_run |-> current_date, next_run |-> schedule_next_run(current_date)]
    /\ UNCHANGED <<processing_results, exit_status, runs, requested, scanned>>
    /\ UNCHANGED hashVars
    /\ UNCHANGED callVars
    /\ UNCHANGED fileVars
    /\ UNCHANGED dbVars
    /\ UNCHANGED runVars

\* the scheduler process ends (Ctrl+C, or the host goes down)
StopScheduler ==
    /\ job # NoJob
    /\ job' = NoJob
    /\ UNCHANGED <<processing_results, exit_status, runs, requested, scanned>>
    /\ UNCHANGED hashVars
    /\ UNCHANGED callVars
    /\ UNCHANGED fileVars
    /\ UNCHANGED dbVars
    /\ UNCHANGED runVars

\* a day passes; a running scheduler has polled its job, so none is due
SchedulerDay ==
    /\ current_date < MaxSchedulerDay
    /\ job # NoJob => ~should_run(job, current_date)
    /\ current_date' = current_date + 1
    /\ last_cutoff_date' = NoDate
    /\ UNCHANGED <<run_log, run_windows, run_log_sequence, run_windows_sequence>>
    /\ UNCHANGED entryVars
    /\ UNCHANGED callVars
    /\ UNCHANGED fileVars
    /\ UNCHANGED dbVars

NextScheduler ==
    \/ StartScheduler
    \/ RunPending
    \/ StopScheduler
    \/ SchedulerDay
    \/ RecordRunWindow

SpecScheduler == InitScheduler /\ [][NextScheduler]_vars

-----------------------------------------------------------------------------
(* The current batch: the date range rms_scraper requests when it is run    *)
(* without --start and --end, and the invoices scan_invoice_files keeps.    *)
(* An invoice date is a day, read as the midnight that begins it;           *)
(* datetime.today() is a day and a time of day.                             *)

MaxBatchDate == 5

BatchDates == 1..MaxBatchDate

\* the default of date_range_days, and the days the default --start goes back
ScanRangeDays == 3
RmsRangeDays == 4

\* rms_scraper run as a script on day `day`: a missing --start is
\* today - 4 days and a missing --end is today
default_range(day, start_arg, end_arg) ==
    [start |-> IF start_arg = NoDate THEN day - RmsRangeDays ELSE start_arg,
     end   |-> IF end_arg = NoDate THEN day ELSE end_arg]

\* (ParsedInvoiceDate >= start_date) & (ParsedInvoiceDate <= today), with
\* today = datetime.today() and start_date = today - date_range_days: the
\* midnight of the first day is at or after start_date only at midnight
in_scan_range(invoice_date, day, at_midnight, date_range_days) ==
    /\ \/ invoice_date > day - date_range_days
       \/ invoice_date = day - date_range_days /\ at_midnight
    /\ invoice_date <= day

\* scan_invoice_files: the invoice dates of the rows it returns
scan_invoice_files(invoice_dates, day, at_midnight, date_range_days) ==
    {d \in invoice_dates : in_scan_range(d, day, at_midnight, date_range_days)}

InitBatch ==
    /\ df = Frame(CompareColumns, <<>>)
    /\ snapshot_dir = EmptyDir
    /\ today \in BatchDates
    /\ NotCompared
    /\ StoreIdle
    /\ RunsIdle
    /\ EntryIdle
    /\ CallsIdle
    /\ HashIdle

\* python rms_scraper.py [--start S] [--end E]
RequestRange ==
    /\ \E start_arg \in {NoDate} \cup BatchDates, end_arg \in {NoDate} \cup BatchDates :
           requested' = [today     |-> today,
                         start_arg |-> start_arg,
                         end_arg   |-> end_arg,
                         range     |-> default_range(today, start_arg, end_arg)]
    /\ UNCHANGED <<processing_results, exit_status, runs, job, scanned>>
    /\ UNCHANGED hashVars
    /\ UNCHANGED callVars
    /\ UNCHANGED fileVars
    /\ UNCHANGED dbVars
    /\ UNCHANGED runVars

\* scan_invoice_files(base_folder) on files holding the invoice dates
ScanInvoiceFiles ==
    /\ \E invoice_dates \in SUBSET BatchDates, at_midnight \in BOOLEAN :
           scanned' = [today         |-> today,
                       invoice_dates |-> invoice_dates,
                       kept          |-> scan_invoice_files(invoice_dates, today,
                                             at_midnight, ScanRangeDays)]
    /\ UNCHANGED <<processing_results, exit_status, runs, job, requested>>
    /\ UNCHANGED hashVars
    /\ UNCHANGED callVars
    /\ UNCHANGED fileVars
    /\ UNCHANGED dbVars
    /\ UNCHANGED runVars

NextBatch == RequestRange \/ ScanInvoiceFiles

SpecBatch == InitBatch /\ [][NextBatch]_vars

-----------------------------------------------------------------------------
(* calculate_invoice_hash on two invoice dictionaries.  A dictionary gives  *)
(* or leaves out invoice_no, vendor_name and total_amount; the five other   *)
(* tracked fields are left out and hashed as their defaults.                *)

TrackedTextFields == {"invoice_no", "vendor_name", "invoice_date", "gstin", "pan", "hsn_code"}

TrackedNumericFields == {"taxable_value", "total_amount"}

TrackedFields == TrackedTextFields \cup TrackedNumericFields

\* the dictionaries that give key one of the values, or leave it out
OptionalEntry(key, values) == {EmptyDict} \cup {key :> v : v \in values}

InvoiceNumbers == {PyNone, PyStr(""), PyStr("A"), PyStr("A "), PyStr("A|B")}

VendorNames == {PyStr("C"), PyStr("B|C")}

TotalAmounts == {PyInt(100), PyFloat(100)}

HashInvoices ==
    {a @@ b @@ c : a \in OptionalEntry("invoice_no", InvoiceNumbers),
                   b \in OptionalEntry("vendor_name", VendorNames),
                   c \in OptionalEntry("total_amount", TotalAmounts)}

\* the string calculate_invoice_hash takes of one tracked field
key_field(invoice, key) ==
    py_str(get(invoice, key,
               IF key \in TrackedNumericFields THEN PyInt(0) ELSE PyStr("")))

InitHash ==
    /\ df = Frame(CompareColumns, <<>>)
    /\ snapshot_dir = EmptyDir
    /\ today = 1
    /\ NotCompared
    /\ StoreIdle
    /\ RunsIdle
    /\ EntryIdle
    /\ CallsIdle
    /\ invoices \in HashInvoices \X HashInvoices
    /\ hashes = NoHash

\* calculate_invoice_hash(invoice) for each of the two dictionaries
CalculateInvoiceHash ==
    /\ hashes = NoHash
    /\ hashes' = <<calculate_invoice_hash(invoices[1]), calculate_invoice_hash(invoices[2])>>
    /\ UNCHANGED invoices
    /\ UNCHANGED callVars
    /\ UNCHANGED <<processing_results, exit_status, runs, job, requested, scanned>>
    /\ UNCHANGED fileVars
    /\ UNCHANGED dbVars
    /\ UNCHANGED runVars

NextHash == CalculateInvoiceHash

SpecHash == InitHash /\ [][NextHash]_vars

-----------------------------------------------------------------------------
(* validate_invoices and steps 5 and 6 of run_validation_workflow, which    *)
(* write the validation status of each record.  A cell is a string or NaN;  *)
(* the index of a frame is 1..len(df).                                      *)

MaxValidatedRows == 2

required_fields == {"PurchaseInvNo", "PurchaseInvDate", "PartyName", "GSTNO", "Total"}

\* df[field].isna() | (df[field].astype(str).str.strip() == '')
value_is_missing(v) == v = NaN \/ str_strip(astype_str(v)) = ""

\* pd.to_numeric(series, errors='coerce') on the cells of the model
to_numeric(v) ==
    CASE v = "100" -> "100.0"
      [] v = "-5"  -> "-5.0"
      [] OTHER     -> NaN

\* Total_numeric < 0
is_negative(v) == v = "-5.0"

\* pd.to_datetime(series, errors='coerce') on the cells of the model
to_datetime(v) == IF v = "2024-01-01" THEN "2024-01-01 00:00:00" ELSE NaN

\* the frame with df['Total_numeric'] assigned, if it has a Total column
with_total_numeric(frame) ==
    IF "Total" \notin frame.columns THEN frame
    ELSE Frame(frame.columns \cup {"Total_numeric"},
               [i \in 1..Len(frame.rows) |->
                   [c \in frame.columns \cup {"Total_numeric"} |->
                       IF c = "Total_numeric" THEN to_numeric(frame.rows[i]["Total"])
                       ELSE frame.rows[i][c]]])

\* the frame with df['ParsedInvoiceDate'] assigned, if it has a PurchaseInvDate column
with_parsed_date(frame) ==
    IF "PurchaseInvDate" \notin frame.columns THEN frame
    ELSE Frame(frame.columns \cup {"ParsedInvoiceDate"},
               [i \in 1..Len(frame.rows) |->
                   [c \in frame.columns \cup {"ParsedInvoiceDate"} |->
                       IF c = "ParsedInvoiceDate"
                       THEN to_datetime(frame.rows[i]["PurchaseInvDate"])
                       ELSE frame.rows[i][c]]])

\* df[mask]: the rows at the index labels idx, each with its label; pd.concat
\* fills the columns a piece does not have with NaN
selected_rows(frame, idx) ==
    LET all_columns == frame.columns \cup {"Total_numeric", "ParsedInvoiceDate"}
        labelled == [i \in 1..Len(frame.rows) |->
                        [idx   |-> i,
                         cells |-> [c \in all_columns |->
                                       IF c \in frame.columns THEN frame.rows[i][c]
                                       ELSE NaN]]]
    IN  SelectSeq(labelled, LAMBDA e : e.idx \in idx)

\* rows_with_issues.drop_duplicates(): of the rows with equal cells the first
\* is kept, whatever their index labels
drop_duplicates(entries) ==
    LET kept == {k \in 1..Len(entries) :
                    \A j \in 1..(k - 1) : entries[j].cells # entries[k].cells}
    IN  RowsAt(entries, kept, 1)

\* the rows with a missing value in one of the required columns the frame has
rows_missing_values(frame) ==
    {i \in 1..Len(frame.rows) :
        \E field \in required_fields \cap frame.columns :
            value_is_missing(frame.rows[i][field])}

\* non_null_invoices.duplicated('PurchaseInvNo', keep=False)
rows_duplicated(frame) ==
    IF "PurchaseInvNo" \notin frame.columns THEN {}
    ELSE LET non_null == {i \in 1..Len(frame.rows) :
                             ~value_is_missing(frame.rows[i]["PurchaseInvNo"])}
         IN  {i \in non_null :
                 \E j \in non_null \ {i} :
                     frame.rows[j]["PurchaseInvNo"] = frame.rows[i]["PurchaseInvNo"]}

\* Total_numeric.isna() & Total.notna()
rows_invalid_amount(frame) ==
    IF "Total" \notin frame.columns THEN {}
    ELSE {i \in 1..Len(frame.rows) :
             to_numeric(frame.rows[i]["Total"]) = NaN /\ frame.rows[i]["Total"] # NaN}

rows_negative_amount(frame) ==
    IF "Total" \notin frame.columns THEN {}
    ELSE {i \in 1..Len(frame.rows) : is_negative(to_numeric(frame.rows[i]["Total"]))}

\* ParsedInvoiceDate.isna() & PurchaseInvDate.notna()
rows_invalid_date(frame) ==
    IF "PurchaseInvDate" \notin frame.columns THEN {}
    ELSE {i \in 1..Len(frame.rows) :
             to_datetime(frame.rows[i]["PurchaseInvDate"]) = NaN
                 /\ frame.rows[i]["PurchaseInvDate"] # NaN}

\* validate_invoices(df) on a frame that is not empty: the issues, the frame
\* rows_with_issues, and df as the function leaves it
validate_invoices(frame) ==
    LET with_total == with_total_numeric(frame)
        with_both == with_parsed_date(with_total)
        pieces == selected_rows(frame, rows_missing_values(frame))
                      \o selected_rows(frame, rows_duplicated(frame))
                      \o selected_rows(with_total, rows_invalid_amount(frame))
                      \o selected_rows(with_total, rows_negative_amount(frame))
                      \o selected_rows(with_both, rows_invalid_date(frame))
    IN  [issues |->
             {[kind |-> "missing_column", field |-> f] : f \in required_fields \ frame.columns}
                 \cup {[kind |-> "missing_values", field |-> f] :
                          f \in {g \in required_fields \cap frame.columns :
                                    \E i \in 1..Len(frame.rows) :
                                        value_is_missing(frame.rows[i][g])}}
                 \cup (IF rows_duplicated(frame) # {}
                       THEN {[kind |-> "duplicates", field |-> "PurchaseInvNo"]} ELSE {})
                 \cup (IF rows_invalid_amount(frame) # {}
                       THEN {[kind |-> "invalid_amount", field |-> "Total"]} ELSE {})
                 \cup (IF rows_negative_amount(frame) # {}
                       THEN {[kind |-> "negative_amount", field |-> "Total"]} ELSE {})
                 \cup (IF rows_invalid_date(frame) # {}
                       THEN {[kind |-> "invalid_date", field |-> "PurchaseInvDate"]} ELSE {}),
         rows_with_issues |-> drop_duplicates(pieces),
         df |-> with_both]

\* the columns steps 5 and 6 of run_validation_workflow add
StatusColumns ==
    {"Validation_Status", "Issues_Found", "Correct", "Flagged",
     "Modified Since Last Check", "Late Upload"}

\* steps 5 and 6: the frame with the status columns, every row valid except
\* those whose index label is in problematic_invoices
with_validation_status(frame, problematic_invoices) ==
    LET marked == {problematic_invoices[k].idx : k \in 1..Len(problematic_invoices)}
        status(i) == IF i \in marked THEN "Issues Found" ELSE "Valid"
    IN  Frame(frame.columns \cup StatusColumns,
              [i \in 1..Len(frame.rows) |->
                  [c \in frame.columns \cup StatusColumns |->
                      CASE c \in frame.columns \ StatusColumns -> frame.rows[i][c]
                        [] c = "Validation_Status" -> status(i)
                        [] c = "Issues_Found" ->
                               IF i \in marked THEN "See validation report" ELSE ""
                        [] c = "Correct" -> IF status(i) = "Valid" THEN "ok" ELSE "x"
                        [] c = "Flagged" -> IF i \in marked THEN "flag" ELSE ""
                        [] OTHER -> ""]])

\* the column sets of the extracts: all required columns, GSTNO missing, and
\* neither a Total nor a PurchaseInvDate column
ExtractColumns ==
    {required_fields, required_fields \ {"GSTNO"}, {"PurchaseInvNo", "PartyName", "GSTNO"}}

ExtractCells(column) ==
    CASE column = "PurchaseInvNo"   -> {"I1", "I2", ""}
      [] column = "PurchaseInvDate" -> {"2024-01-01", "bad"}
      [] column = "PartyName"       -> {"x", NaN}
      [] column = "GSTNO"           -> {"G"}
      [] column = "Total"           -> {"100", "-5", "abc"}

\* the records an extract with these columns may hold
ExtractRows(columns) ==
    {r \in [columns -> UNION {ExtractCells(c) : c \in columns}] :
        \A c \in columns : r[c] \in ExtractCells(c)}

\* the extracts with these columns: one record at least
ValidatedExtracts(columns) ==
    {Frame(columns, rows) :
        rows \in SeqsUpTo(ExtractRows(columns), MaxValidatedRows) \ {<<>>}}

InitValidate ==
    /\ \E columns \in ExtractColumns : df \in ValidatedExtracts(columns)
    /\ snapshot_dir = EmptyDir
    /\ today = 1
    /\ NotCompared
    /\ StoreIdle
    /\ RunsIdle
    /\ EntryIdle
    /\ CallsIdle
    /\ HashIdle

\* run_validation_workflow(), steps 5 and 6
ValidateInvoices ==
    /\ validation = NotCalled
    /\ LET result == validate_invoices(df)
       IN  /\ validation' = [extract          |-> df,
                             issues           |-> result.issues,
                             rows_with_issues |-> result.rows_with_issues,
                             df               |-> result.df]
           /\ df' = with_validation_status(result.df, result.rows_with_issues)
    /\ UNCHANGED <<snapshot_dir, today, previous_snapshot_path, previous_df,
                   effective_primary_key, comparison_result, delta>>
    /\ UNCHANGED <<choice, scheduled_jobs, local_files, update>>
    /\ UNCHANGED dbVars
    /\ UNCHANGED runVars
    /\ UNCHANGED entryVars

NextValidate == ValidateInvoices

SpecValidate == InitValidate /\ [][NextValidate]_vars

-----------------------------------------------------------------------------
(* The comparison of the records run_validator.py builds: each record       *)
(* carries Processing_Time, the clock reading of the run that built it.     *)

\* the columns of a record of process_pdf_file that hold run metadata
VolatileColumns == {"Processing_Time"}

StampedColumns == {"InvID", "Vendor"} \cup VolatileColumns

StampedRows == [InvID : {"K1", "K2"}, Vendor : {"x", "y"}, Processing_Time : {"T1", "T2"}]

StampedFrames == {Frame(StampedColumns, rows) : rows \in SeqsUpTo(StampedRows, MaxRows)}

\* the current records and the snapshot of the day before
InitStamped ==
    /\ df \in StampedFrames
    /\ \E content \in {Absent} \cup {Xlsx(frame) : frame \in StampedFrames} :
           snapshot_dir = [EmptyDir EXCEPT ![SnapshotFile(1, 0)] = content]
    /\ today = 2
    /\ NotCompared
    /\ StoreIdle
    /\ RunsIdle
    /\ EntryIdle
    /\ CallsIdle
    /\ HashIdle

NextStamped == CompareWithSnapshot

SpecStamped == InitStamped /\ [][NextStamped]_vars

-----------------------------------------------------------------------------
(* _choose_first of validator_utils.py: the header of an extract chosen for  *)
(* a canonical field.  df.columns is a sequence of distinct headers.        *)

MaxHeaders == 3

\* COLUMN_MAP_PRIORITIES, the two fields whose aliases the headers match
COLUMN_MAP_PRIORITIES ==
    [gstin  |-> <<"GSTNo", "GSTNO", "GSTIN", "GST No", "GST_No">>,
     amount |-> <<"Invoice Amount", "Total", "Amount", "GrandTotal", "NetAmount">>]

\* str.lower()
lower(text) ==
    CASE text \in {"GSTNo", "GSTNO"} -> "gstno"
      [] text = "GSTIN"              -> "gstin"
      [] text = "GST No"             -> "gst no"
      [] text = "GST_No"             -> "gst_no"
      [] text = "Invoice Amount"     -> "invoice amount"
      [] text \in {"Total", "TOTAL"} -> "total"
      [] text \in {"Amount", "AMOUNT"} -> "amount"
      [] text = "GrandTotal"         -> "grandtotal"
      [] text = "NetAmount"          -> "netamount"
      [] text = "Vendor"             -> "vendor"
      [] OTHER                       -> text

\* low = {c.lower(): c for c in df.columns}: the last header of a key stays
low(columns, key) ==
    columns[Max({i \in 1..Len(columns) : lower(columns[i]) = key})]

\* _choose_first(df, names)
_choose_first(columns, names) ==
    LET exact  == {i \in 1..Len(names) :
                      \E j \in 1..Len(columns) : columns[j] = names[i]}
        folded == {i \in 1..Len(names) :
                      \E j \in 1..Len(columns) : lower(columns[j]) = lower(names[i])}
    IN  IF exact # {} THEN PyStr(names[Min(exact)])
        ELSE IF folded # {} THEN PyStr(low(columns, lower(names[Min(folded)])))
        ELSE PyNone

\* the headers an extract may carry
Headers == {"Total", "total", "TOTAL", "Amount", "NetAmount", "gstno", "GSTIN", "Vendor"}

\* df.columns after the duplicated headers are dropped
HeaderLists ==
    {columns \in SeqsUpTo(Headers, MaxHeaders) \ {<<>>} :
        \A i, j \in 1..Len(columns) : i # j => columns[i] # columns[j]}

\* no file read, no table written, no operation called
InitIdle ==
    /\ df = Frame(CompareColumns, <<>>)
    /\ snapshot_dir = EmptyDir
    /\ today = 1
    /\ NotCompared
    /\ StoreIdle
    /\ RunsIdle
    /\ EntryIdle
    /\ CallsIdle
    /\ HashIdle

\* normalize_columns: chosen[k] = _choose_first(df, v) for a field k
ChooseFirst ==
    /\ choice = NotCalled
    /\ \E columns \in HeaderLists, field \in DOMAIN COLUMN_MAP_PRIORITIES :
           choice' = [kind    |-> "chosen",
                      columns |-> columns,
                      names   |-> COLUMN_MAP_PRIORITIES[field],
                      result  |-> _choose_first(columns, COLUMN_MAP_PRIORITIES[field])]
    /\ UNCHANGED <<validation, scheduled_jobs, local_files, update>>
    /\ UNCHANGED fileVars
    /\ UNCHANGED dbVars
    /\ UNCHANGED runVars
    /\ UNCHANGED entryVars

NextChoose == ChooseFirst

SpecChoose == InitIdle /\ [][NextChoose]_vars

-----------------------------------------------------------------------------
(* The archive: run windows are recorded, the invoices of a run saved, old   *)
(* records archived, and cleanup_old_data deletes archived records.         *)

\* days_to_keep=90
DefaultDaysToKeep == 90

\* the values of days_to_keep a call gives
DaysToKeep == {0, 1, DefaultDaysToKeep}

\* DELETE FROM table WHERE archived = 1 AND archived_date < ?
delete_archived_before(table, cutoff_date) ==
    SelectSeq(table, LAMBDA row : ~(row.archived = 1 /\ row.archived_date < cutoff_date))

\* the three tables after cleanup_old_data(days_to_keep) on day `day`; with
\* the database locked the first DELETE raises and nothing is written
cleanup_old_data(windows, log, snapshots, locked, days_to_keep, day) ==
    IF locked
    THEN [run_windows |-> windows, run_log |-> log, invoice_snapshots |-> snapshots]
    ELSE [run_windows       |-> delete_archived_before(windows, day - days_to_keep),
          run_log           |-> delete_archived_before(log, day - days_to_keep),
          invoice_snapshots |-> delete_archived_before(snapshots, day - days_to_keep)]

\* cleanup_old_data(days_to_keep)
CleanupOldData ==
    \E days_to_keep \in DaysToKeep :
        LET tables == cleanup_old_data(run_windows, run_log, db, write_lock,
                                       days_to_keep, current_date)
        IN  /\ run_windows' = tables.run_windows
            /\ run_log' = tables.run_log
            /\ db' = tables.invoice_snapshots
            /\ last_cutoff_date' = NoDate
            /\ UNCHANGED <<run_log_sequence, run_windows_sequence, current_date>>
            /\ UNCHANGED <<sqlite_sequence, write_lock, last_call, read_result>>
            /\ UNCHANGED fileVars
            /\ UNCHANGED entryVars
            /\ UNCHANGED callVars

NextArchive ==
    \/ RecordRunWindow
    \/ SaveRunSnapshot
    \/ ArchiveValidationRecordsBeforeDate
    \/ CleanupOldData
    \/ NextDay

SpecArchive == InitRuns /\ [][NextArchive]_vars

-----------------------------------------------------------------------------
(* The restart of the scheduler: the except branch of start_scheduler calls  *)
(* start_scheduler again.  scheduled_jobs is the job list of the schedule    *)
(* library's default scheduler, which lives as long as the process; an      *)
(* empty list is a scheduler that has not been started.                     *)

MaxJobs == 3

\* Job.do of the schedule library: the job is appended to scheduler.jobs
do(jobs, now) == Append(jobs, [last_run |-> NoDate, next_run |-> schedule_next_run(now)])

\* Scheduler.run_pending of the schedule library: every job that is due runs
\* and is scheduled again
run_pending(jobs, now) ==
    [i \in 1..Len(jobs) |->
        IF should_run(jobs[i], now)
        THEN [last_run |-> now, next_run |-> schedule_next_run(now)]
        ELSE jobs[i]]

\* start_scheduler(), the call of main()
StartSchedulerService ==
    /\ scheduled_jobs = <<>>
    /\ scheduled_jobs' = do(scheduled_jobs, current_date)
    /\ UNCHANGED <<validation, choice, local_files, update>>
    /\ UNCHANGED fileVars
    /\ UNCHANGED dbVars
    /\ UNCHANGED runVars
    /\ UNCHANGED entryVars

\* the loop raises an Exception: the except branch sleeps 60 seconds and
\* calls start_scheduler(), which registers its job
RestartScheduler ==
    /\ scheduled_jobs # <<>>
    /\ Len(scheduled_jobs) < MaxJobs
    /\ scheduled_jobs' = do(scheduled_jobs, current_date)
    /\ UNCHANGED <<validation, choice, local_files, update>>
    /\ UNCHANGED fileVars
    /\ UNCHANGED dbVars
    /\ UNCHANGED runVars
    /\ UNCHANGED entryVars

\* schedule.run_pending() with a job due
RunPendingJobs ==
    /\ \E i \in 1..Len(scheduled_jobs) : should_run(scheduled_jobs[i], current_date)
    /\ scheduled_jobs' = run_pending(scheduled_jobs, current_date)
    /\ UNCHANGED <<validation, choice, local_files, update>>
    /\ UNCHANGED fileVars
    /\ UNCHANGED dbVars
    /\ UNCHANGED runVars
    /\ UNCHANGED entryVars

\* a day passes; a running scheduler has polled its jobs, so none is due
RestartDay ==
    /\ current_date < MaxSchedulerDay
    /\ \A i \in 1..Len(scheduled_jobs) : ~should_run(scheduled_jobs[i], current_date)
    /\ current_date' = current_date + 1
    /\ UNCHANGED <<run_log, run_windows, run_log_sequence, run_windows_sequence,
                   last_cutoff_date>>
    /\ UNCHANGED callVars
    /\ UNCHANGED fileVars
    /\ UNCHANGED dbVars
    /\ UNCHANGED entryVars

NextRestart ==
    \/ StartSchedulerService
    \/ RestartScheduler
    \/ RunPendingJobs
    \/ RestartDay

SpecRestart == InitScheduler /\ [][NextRestart]_vars

-----------------------------------------------------------------------------
(* process_local_files on the files of the downloads directory: the         *)
(* counters of processing_results it leaves.                                *)

\* process_local_files(), on a validator just constructed
ProcessLocalFiles ==
    /\ local_files = NotCalled
    /\ \E files \in SeqsUpTo(DownloadedFiles, MaxFiles), listing_fails \in BOOLEAN :
           LET processed == process_local_files(processing_results, files, listing_fails)
           IN  /\ processing_results' = processed.results
               /\ local_files' = [kind            |-> "processed",
                                  files           |-> files,
                                  listing_fails   |-> listing_fails,
                                  processed_files |-> processed.processed_files]
    /\ UNCHANGED <<exit_status, runs, job, requested, scanned>>
    /\ UNCHANGED <<validation, choice, scheduled_jobs, update>>
    /\ UNCHANGED hashVars
    /\ UNCHANGED fileVars
    /\ UNCHANGED dbVars
    /\ UNCHANGED runVars

NextFiles == ProcessLocalFiles

SpecFiles == InitMain /\ [][NextFiles]_vars

-----------------------------------------------------------------------------
(* update_invoice_status of updater.py: the attempts it makes on the update  *)
(* page.  What the page does in an attempt is given: whether steps 1 to 6   *)
(* went through, so that the update was submitted, and which indicators the  *)
(* page displays afterwards.                                                 *)

MaxRetries == 3

\* what the page does in one attempt; nothing is displayed for an update that
\* was not submitted
PageOutcomes ==
    {p \in [submitted : BOOLEAN, success_shown : BOOLEAN, error_shown : BOOLEAN] :
        ~p.submitted => (~p.success_shown /\ ~p.error_shown)}

\* One pass of the try block: "returned" when it returns True, "raised" when
\* an exception reaches the outer except branch.  The exception raised for a
\* displayed error indicator is caught by the inner except branch, which
\* returns True.
attempt_outcome(page) ==
    IF ~page.submitted THEN "raised"
    ELSE IF page.success_shown THEN "returned"
    ELSE IF page.error_shown THEN "returned"
    ELSE "returned"

\* for attempt in range(max_retries), from attempt i on
RECURSIVE attempts_from(_, _, _)
attempts_from(pages, max_retries, i) ==
    IF i > max_retries THEN [result |-> FALSE, attempts |-> max_retries]
    ELSE IF attempt_outcome(pages[i]) = "returned"
    THEN [result |-> TRUE, attempts |-> i]
    ELSE attempts_from(pages, max_retries, i + 1)

\* update_invoice_status(driver, invoice_no, status, reason, max_retries)
update_invoice_status(pages, max_retries) == attempts_from(pages, max_retries, 1)

\* update_invoice_status is called once
UpdateInvoiceStatus ==
    /\ update = NotCalled
    /\ \E max_retries \in 0..MaxRetries :
           \E pages \in [1..max_retries -> PageOutcomes] :
               LET returned == update_invoice_status(pages, max_retries)
               IN  update' = [kind        |-> "returned",
                              max_retries |-> max_retries,
                              pages       |-> pages,
                              attempts    |-> returned.attempts,
                              result      |-> returned.result]
    /\ UNCHANGED <<validation, choice, scheduled_jobs, local_files>>
    /\ UNCHANGED fileVars
    /\ UNCHANGED dbVars
    /\ UNCHANGED runVars
    /\ UNCHANGED entryVars

NextUpdate == UpdateInvoiceStatus

SpecUpdate == InitIdle /\ [][NextUpdate]_vars

-----------------------------------------------------------------------------
(* Claims about the comparison *)

\* a cell as the claims compare it: trimmed, a null cell as the empty string
NormalCell(v) ==
    CASE v = NaN  -> ""
      [] v = " x" -> "x"
      [] v = " y" -> "y"
      [] v = " "  -> ""
      [] OTHER    -> v

RowSet(frame) == {frame.rows[i] : i \in 1..Len(frame.rows)}

\* a call of compare_with_snapshot has returned after comparing by a key
KeyedComparisonDone ==
    /\ delta # NoResult
    /\ comparison_result # NoResult

KeyOfRow(row) == NormalCell(row[effective_primary_key])

KeysUniqueAndNonEmpty(rows) ==
    /\ \A i \in 1..Len(rows) : KeyOfRow(rows[i]) # ""
    /\ \A i, j \in 1..Len(rows) : i # j => KeyOfRow(rows[i]) # KeyOfRow(rows[j])

\* some common non-key column differs between the two records after cleaning
RecordsDiffer(a, b) ==
    \E c \in (df.columns \cap previous_df.columns) \ {effective_primary_key} :
        NormalCell(a[c]) # NormalCell(b[c])

C1_Precondition ==
    /\ KeyedComparisonDone
    /\ KeysUniqueAndNonEmpty(df.rows)
    /\ KeysUniqueAndNonEmpty(previous_df.rows)

\* C1: when the chosen key is non-empty and unique within the current and
\* within the previous records, a current record is Added iff its key occurs
\* only in current, a previous record is Deleted iff its key occurs only in
\* previous, a record with its key in both is Modified iff some common non-key
\* column differs after cleaning and Unchanged otherwise, the returned frames
\* and counts are those of these partitions, and the partitions are pairwise
\* disjoint.
C1_PartitionByKey ==
    C1_Precondition =>
        LET cur == df.rows
            prev == previous_df.rows
            r == comparison_result
            OnlyCurrent == {i \in 1..Len(cur) :
                               \A j \in 1..Len(prev) : KeyOfRow(prev[j]) # KeyOfRow(cur[i])}
            OnlyPrevious == {j \in 1..Len(prev) :
                               \A i \in 1..Len(cur) : KeyOfRow(cur[i]) # KeyOfRow(prev[j])}
            Changed == {i \in 1..Len(cur) :
                           \E j \in 1..Len(prev) :
                               /\ KeyOfRow(prev[j]) = KeyOfRow(cur[i])
                               /\ RecordsDiffer(cur[i], prev[j])}
            Same == {i \in 1..Len(cur) :
                        \E j \in 1..Len(prev) :
                            /\ KeyOfRow(prev[j]) = KeyOfRow(cur[i])
                            /\ ~RecordsDiffer(cur[i], prev[j])}
        IN  /\ r.added_indices = OnlyCurrent
            /\ r.deleted_indices = OnlyPrevious
            /\ r.modified_indices = Changed
            /\ r.unchanged_indices = Same
            /\ RowSet(delta.added) = {cur[i] : i \in OnlyCurrent}
            /\ RowSet(delta.modified) = {cur[i] : i \in Changed}
            /\ RowSet(delta.deleted) = {prev[j] : j \in OnlyPrevious}
            /\ delta.stats = [added     |-> Cardinality(OnlyCurrent),
                              modified  |-> Cardinality(Changed),
                              deleted   |-> Cardinality(OnlyPrevious),
                              unchanged |-> Cardinality(Same)]
            /\ r.added_indices \cap r.modified_indices = {}
            /\ r.added_indices \cap r.unchanged_indices = {}
            /\ r.modified_indices \cap r.unchanged_indices = {}
            /\ \A j \in r.deleted_indices : \A i \in 1..Len(cur) :
                   KeyOfRow(cur[i]) # KeyOfRow(prev[j])

\* A keyed comparison with a deleted record and a record that is unchanged
\* only because its padded cell is trimmed.
C1_Witness ==
    /\ C1_Precondition
    /\ comparison_result.deleted_indices # {}
    /\ \E i \in comparison_result.unchanged_indices : df.rows[i]["Vendor"] = " x"

NonEmptyKeyCount(rows) ==
    Cardinality({i \in 1..Len(rows) : KeyOfRow(rows[i]) # ""})

\* C2: for every comparison that uses a key, added + modified + unchanged is
\* the number of current records with a non-empty key and deleted + modified +
\* unchanged is the number of previous records with a non-empty key.
C2_PartitionComplete ==
    KeyedComparisonDone =>
        /\ delta.stats.added + delta.stats.modified + delta.stats.unchanged
               = NonEmptyKeyCount(df.rows)
        /\ delta.stats.deleted + delta.stats.modified + delta.stats.unchanged
               = NonEmptyKeyCount(previous_df.rows)

RowOrders(n) ==
    {p \in [1..n -> 1..n] : \A i, j \in 1..n : i # j => p[i] # p[j]}

Permuted(frame, p) ==
    Frame(frame.columns, [i \in 1..Len(frame.rows) |-> frame.rows[p[i]]])

\* the directory with the rows of the previous snapshot reordered by p
WithPreviousPermuted(dir, day, p) ==
    LET path == find_latest_snapshot(dir, day)
    IN  [dir EXCEPT ![path] = Xlsx(Permuted(dir[path].frame, p))]

\* the records of each partition, and the counts
PartitionsOf(current, dir, day) ==
    LET res == compare_with_snapshot(current, dir, day, "InvID")
        cmp == detailed_comparison(current, dir, day, "InvID")
    IN  [added     |-> RowSet(res.added),
         modified  |-> RowSet(res.modified),
         deleted   |-> RowSet(res.deleted),
         unchanged |-> IF cmp = NoResult THEN {}
                       ELSE {current.rows[i] : i \in cmp.unchanged_indices},
         stats     |-> res.stats]

\* C3: the result of compare_with_snapshot does not depend on the row order:
\* for every permutation of the rows of the current frame and of the previous
\* frame each record is in the same partition and the four counts are the same.
C3_OrderIndependent ==
    (delta # NoResult /\ previous_df # NoFrame) =>
        \A p \in RowOrders(Len(df.rows)) :
            \A q \in RowOrders(Len(previous_df.rows)) :
                PartitionsOf(Permuted(df, p),
                             WithPreviousPermuted(snapshot_dir, today, q), today)
                    = PartitionsOf(df, snapshot_dir, today)

\* C5: the result of a run that found no usable key, and its summary, differ
\* from the result and the summary of every run on the same current records
\* that did not degrade: the result carries the indication of the degradation.
C5_DegradationIndicated ==
    (delta # NoResult /\ compare_path(df, snapshot_dir, today, "InvID") = "no_key") =>
        \A content \in PreviousContents :
            LET other == [EmptyDir EXCEPT ![SnapshotFile(1, 0)] = content]
                res == compare_with_snapshot(df, other, today, "InvID")
            IN  compare_path(df, other, today, "InvID") # "no_key" =>
                    /\ res # delta
                    /\ generate_change_summary(res) # generate_change_summary(delta)

\* C6: in a keyed comparison a current record with a null or empty key is in
\* one of the partitions, and it is Added when no previous row equals it on
\* the common columns.
C6_EmptyKeyNotLeftOut ==
    KeyedComparisonDone =>
        \A i \in 1..Len(df.rows) :
            KeyOfRow(df.rows[i]) = "" =>
                /\ i \in comparison_result.added_indices
                        \cup comparison_result.modified_indices
                        \cup comparison_result.unchanged_indices
                /\ (~\E j \in 1..Len(previous_df.rows) :
                        \A c \in df.columns \cap previous_df.columns :
                            NormalCell(df.rows[i][c]) = NormalCell(previous_df.rows[j][c]))
                    => i \in comparison_result.added_indices

-----------------------------------------------------------------------------
(* Claims about the key selection *)

\* the uniqueness ratio of the column in the current frame is at least 0.8
RatioAtLeastThreshold(frame, key) ==
    LET values == {frame.rows[i][key] : i \in 1..Len(frame.rows)} \ {NaN}
        nonNull == {i \in 1..Len(frame.rows) : frame.rows[i][key] # NaN}
    IN  /\ nonNull # {}
        /\ Cardinality(values) * UniqueRatioDen >= UniqueRatioNum * Cardinality(nonNull)

CandidateQualifies(key) ==
    /\ key \in df.columns
    /\ key \in previous_df.columns
    /\ RatioAtLeastThreshold(df, key)

\* C4: determine_primary_key returns the first candidate of the ordered list
\* that is a column of both frames and whose uniqueness ratio in the current
\* frame is at least 0.8, and None only when no candidate meets this.
C4_FirstQualifyingKey ==
    effective_primary_key # Pending =>
        LET keys == <<"InvID", "InvID", "Invoice_No", "PurchaseInvNo", "VoucherNo", "Voucher_No">>
            ok == {i \in 1..Len(keys) : CandidateQualifies(keys[i])}
        IN  IF ok = {} THEN effective_primary_key = None
            ELSE /\ effective_primary_key # None
                 /\ \E i \in ok : /\ keys[i] = effective_primary_key
                                  /\ \A j \in ok : j >= i

-----------------------------------------------------------------------------
(* Claims about the snapshot directory *)

\* the stored snapshots: the files "snapshot_<date>.xlsx"
StoredSnapshots == {f \in listdir(snapshot_dir) : f.stamp = 0}

\* C7: find_latest_snapshot(dir, d) returns the snapshot with the greatest date
\* strictly earlier than d, or none if there is no such snapshot; it never
\* returns a snapshot dated d or later.
C7_LatestStrictlyBefore ==
    previous_snapshot_path # PendingPath =>
        LET earlier == {f \in StoredSnapshots : f.date < today}
        IN  IF earlier = {} THEN previous_snapshot_path = NoPath
            ELSE /\ previous_snapshot_path \in earlier
                 /\ \A f \in earlier : f.date <= previous_snapshot_path.date

-----------------------------------------------------------------------------
(* Claims about the invoice store *)

\* the live rows of table invoice_snapshots with run_date d, in rowid order
LiveRows(d) == SelectSeq(db, LAMBDA row : is_live(row) /\ row.run_date = d)

\* the last call of save_invoice_snapshot returned after its commit
LastSaveCommitted ==
    last_call.op = "save_invoice_snapshot" /\ ~last_call.raised

\* the last call of save_invoice_snapshot ended in its except branch
LastSaveFailed ==
    last_call.op = "save_invoice_snapshot" /\ last_call.raised

\* the invoice number of a record, under whichever of the two keys it has
InvoiceNumberOf(record) ==
    IF "Invoice_Number" \in DOMAIN record THEN record["Invoice_Number"].v
    ELSE IF "invoice_no" \in DOMAIN record THEN record["invoice_no"].v
    ELSE ""

DistinctInvoiceNumbers(invoice_list) ==
    \A i, j \in 1..Len(invoice_list) :
        i # j => InvoiceNumberOf(invoice_list[i]) # InvoiceNumberOf(invoice_list[j])

\* C8: after any sequence of save_invoice_snapshot calls, the live rows of a
\* run_date are exactly the records of the last write for that run_date: a
\* write to a run_date that already has rows replaces them, so that there is
\* at most one live row per (invoice number, run_date).
C8_LastWriteReplaces ==
    LastSaveCommitted =>
        LET live == LiveRows(last_call.run_date)
            written == last_call.invoice_list
        IN  /\ Len(live) = Len(written)
            /\ \A i \in 1..Len(live) :
                   /\ live[i].invoice_no = InvoiceNumberOf(written[i])
                   /\ live[i].hash = calculate_invoice_hash(written[i])
            /\ DistinctInvoiceNumbers(written) =>
                   \A i, j \in 1..Len(live) :
                       i # j => live[i].invoice_no # live[j].invoice_no

\* C9: a snapshot write is all-or-nothing.  From a call of
\* save_invoice_snapshot that fails until the next call, the table is what it
\* was before the failing call: no row of the failing call is stored, neither
\* by the call nor later when its connection is collected, and the rows of
\* earlier calls are unchanged; every read returns what the table holds.
C9_AllOrNothing ==
    [][/\ (last_call'.op = "save_invoice_snapshot" /\ last_call'.raised) => db' = db
       /\ read_result' # NoRead =>
              read_result'.snapshots =
                  get_invoice_snapshots_by_date_range(
                      db, read_result'.start_date, read_result'.end_date)]_vars

\* a call failed after it had inserted a row, on a table that held rows of
\* earlier calls, and the run_date of the failed call was read afterwards
C9_Witness ==
    /\ LastSaveFailed
    /\ last_call.inserted >= 1
    /\ Len(db) >= 1
    /\ read_result # NoRead
    /\ read_result.start_date = last_call.run_date

\* entry is the entry of record: its invoice number and its content hash
EntryOfRecord(entry, record) ==
    /\ Len(entry.invoice_data) = 1
    /\ entry.invoice_data[1].invoice_no = InvoiceNumberOf(record)
    /\ entry.invoice_data[1].hash = calculate_invoice_hash(record)

\* exactly one entry per record of invoice_list
OneEntryPerRecord(entries, invoice_list) ==
    /\ Len(entries) = Len(invoice_list)
    /\ \E p \in RowOrders(Len(invoice_list)) :
           \A i \in 1..Len(invoice_list) :
               EntryOfRecord(entries[i], invoice_list[p[i]])

\* save_invoice_snapshot(L, d) was called on a table with no rows for d, and
\* get_invoice_snapshots_by_date_range(d, d) was called after it
RoundTripRead ==
    /\ last_call.op = "save_invoice_snapshot"
    /\ last_call.fresh
    /\ read_result # NoRead
    /\ read_result.start_date = last_call.run_date
    /\ read_result.end_date = last_call.run_date

-----------------------------------------------------------------------------
(* Claims about the run windows *)

\* at most one row of the table per (start_date, end_date, run_date)
OneRowPerWindow(table) ==
    \A i, j \in 1..Len(table) : same_window(table[i], table[j]) => i = j

\* C11: re-recording the same (start_date, end_date) on the same run_date
\* never creates a duplicate run-window record: after any sequence of
\* record_run_window calls each of the tables run_windows and run_log holds at
\* most one row per (start_date, end_date, run_date).
C11_NoDuplicateRunWindow ==
    OneRowPerWindow(run_windows) /\ OneRowPerWindow(run_log)

\* the table after its live rows with run_date before cutoff_date are archived,
\* the day of archiving taken from the table `after`
ArchivedBefore(table, after, cutoff_date) ==
    [i \in 1..Len(table) |->
        IF table[i].run_date < cutoff_date /\ table[i].archived = 0
        THEN [table[i] EXCEPT !.archived = 1, !.archived_date = after[i].archived_date]
        ELSE table[i]]

\* the step archives, in the table, exactly the live rows with run_date before
\* cutoff_date and changes no other row
ArchivesExactly(table, after, cutoff_date) ==
    /\ Len(after) = Len(table)
    /\ after = ArchivedBefore(table, after, cutoff_date)
    /\ \A i \in 1..Len(after) : after[i].archived \in {0, 1}

\* C13: archive_validation_records_before_date(c) archives exactly the live
\* records whose run_date is earlier than c, snapshot rows and run-window rows
\* alike, and leaves every record with run_date on or after c unchanged.
C13_ArchivesBeforeCutoff ==
    [][last_cutoff_date' # NoDate =>
           /\ ArchivesExactly(db, db', last_cutoff_date')
           /\ ArchivesExactly(run_windows, run_windows', last_cutoff_date')
           /\ ArchivesExactly(run_log, run_log', last_cutoff_date')]_vars

\* the first validation date read from the tables is none, or on or after c
FirstValidationDateFrom(c, windows, log) ==
    \/ get_first_validation_date(windows, log) = NoDate
    \/ get_first_validation_date(windows, log) >= c

\* the step records a window that starts before c
RecordsWindowBefore(c) ==
    /\ Len(run_log') > Len(run_log)
    /\ run_log'[Len(run_log')].start_date < c

\* C23: after archive_validation_records_before_date(c) has completed,
\* get_first_validation_date() is none or a date on or after c, and stays so
\* in every step that does not record a window starting before c; archived
\* windows are never the source of the date, in run_windows or in run_log.
C23_FirstDateAfterArchive ==
    [][\A c \in RunDates :
           /\ last_cutoff_date' = c => FirstValidationDateFrom(c, run_windows', run_log')
           /\ (FirstValidationDateFrom(c, run_windows, run_log) /\ ~RecordsWindowBefore(c))
                  => FirstValidationDateFrom(c, run_windows', run_log')]_vars

\* an archive call has archived a window and left a later window live, which
\* is the first validation date
C23_Witness ==
    /\ last_cutoff_date # NoDate
    /\ \E i \in 1..Len(run_windows) :
           run_windows[i].archived = 1 /\ run_windows[i].start_date < last_cutoff_date
    /\ get_first_validation_date(run_windows, run_log) >= last_cutoff_date

-----------------------------------------------------------------------------
(* Claims about the re-run *)

\* C12: a same-day re-run is idempotent.  Once compare_with_snapshot has run
\* for day d, saving the snapshot of d and comparing again for d on the same
\* current data gives the same Added, Modified, Deleted and Unchanged
\* partitions and counts, and the previous snapshot of the re-run is never the
\* snapshot written for d.
C12_RerunIdempotent ==
    [][delta # NoResult =>
           /\ delta' = delta
           /\ comparison_result' = comparison_result
           /\ previous_df' = previous_df
           /\ previous_snapshot_path' # SnapshotFile(today, 0)
           /\ previous_snapshot_path' # SnapshotFile(today, 1)]_vars

\* the re-run has compared against an earlier snapshot that differs from the
\* current data, while the snapshot of the day, written by the first run,
\* holds the current data
C12_Witness ==
    /\ delta # NoResult
    /\ snapshot_dir[SnapshotFile(today, 1)] # Absent
    /\ snapshot_dir[SnapshotFile(today, 0)] = to_excel(df)
    /\ previous_snapshot_path = SnapshotFile(1, 0)
    /\ delta.stats.added + delta.stats.modified > 0

-----------------------------------------------------------------------------
(* Claims about the validation run *)

\* C14: when the ledger extract of a run is absent or empty, the run stops
\* without writing a snapshot: no snapshot file and no snapshot row is created
\* by the run, and every snapshot persisted before is left as it was.
C14_EmptyExtractWritesNothing ==
    [][(delta = NoResult /\ extract_is_missing(df)) =>
           /\ snapshot_dir' = snapshot_dir
           /\ db' = db]_vars

-----------------------------------------------------------------------------
(* Claims about the production entry point *)

\* C15: a run of the production entry point that ends as failed exits with
\* a non-zero status: exit status 0 is returned only for runs whose
\* overall_status is "success".
C15_FailedRunExitsNonZero ==
    exit_status = Exited(0) => processing_results.overall_status = "success"


-----------------------------------------------------------------------------
(* Claims about overlapping runs *)

\* C16: two runs for the same run_date never overlap: while one run is in
\* progress no other run is in progress, so the compare and save steps of two
\* runs never interleave.
C16_RunsNeverOverlap ==
    \A r1 \in Runs, r2 \in Runs :
        (r1 # r2 /\ in_progress(runs[r1])) => ~in_progress(runs[r2])


-----------------------------------------------------------------------------
(* Claims about the scheduler *)

\* shouldRunNow(today): no run is recorded, or the last recorded run is at
\* least the cadence before today
ShouldRunNow(day, last_run_date) ==
    last_run_date = NoDate \/ day - last_run_date >= CadenceDays

\* the job of the scheduler starts in this step
JobStarts == job' # NoJob /\ job' # job /\ job'.last_run = current_date

\* C17: a validation run starts on a day only if no previous run is recorded
\* or the day is at least the cadence of 4 days after the last recorded run
\* date.
C17_RunsOnlyOnCadence ==
    [][JobStarts => ShouldRunNow(current_date, get_last_run_date(run_windows, run_log))]_vars


-----------------------------------------------------------------------------
(* Claims about the current batch *)

\* currentBatch(today) = [today - batchDays, today - 1]
InCurrentBatch(d, day, batch_days) == day - batch_days <= d /\ d <= day - 1

\* C18: the date range a run requests by default and the invoices it keeps
\* for validation are those of [today - batchDays, today - 1]: today itself
\* is never inside the batch.
C18_BatchExcludesToday ==
    /\ (requested # NoBatch /\ requested.start_arg = NoDate /\ requested.end_arg = NoDate) =>
           \A d \in BatchDates :
               (requested.range.start <= d /\ d <= requested.range.end)
                   <=> InCurrentBatch(d, requested.today, RmsRangeDays)
    /\ scanned # NoBatch =>
           scanned.kept = {d \in scanned.invoice_dates :
                              InCurrentBatch(d, scanned.today, ScanRangeDays)}


-----------------------------------------------------------------------------
(* Claims about calculate_invoice_hash *)

\* the two dictionaries differ in the text of at least one tracked field
DifferInTrackedField ==
    \E key \in TrackedFields : key_field(invoices[1], key) # key_field(invoices[2], key)

\* C19: calculate_invoice_hash distinguishes every two records that differ
\* in at least one tracked field, whatever characters the field values
\* contain: the strings it hashes differ.
C19_HashDistinguishes ==
    (hashes # NoHash /\ DifferInTrackedField) => hashes[1] # hashes[2]

\* str.strip() of the strings of the model
strip(text) == IF text = "A " THEN "A" ELSE text

\* a tracked field after normalization: null, absent and the empty string are
\* the same, 100 and 100.0 are the same number, surrounding whitespace is
\* dropped
normalized_field(invoice, key) ==
    LET absent == [t |-> "absent", v |-> ""]
        x == get(invoice, key, absent)
    IN  CASE x.t \in {"absent", "NoneType"} -> PyStr("")
          [] x.t \in {"int", "float"}       -> PyInt(x.v)
          [] OTHER                          -> PyStr(strip(x.v))

EqualAfterNormalization ==
    \A key \in TrackedFields :
        normalized_field(invoices[1], key) = normalized_field(invoices[2], key)

\* C20: calculate_invoice_hash gives equal hashes to records that are
\* field-wise equal after normalization.
C20_HashOfNormalizedEqual ==
    (hashes # NoHash /\ EqualAfterNormalization) => hashes[1] = hashes[2]


-----------------------------------------------------------------------------
(* Claims about validate_invoices *)

\* record i of the extract lacks a required field: the column is missing, or
\* the value is null or blank
LacksRequiredField(extract, i) ==
    \E field \in required_fields :
        field \notin extract.columns \/ value_is_missing(extract.rows[i][field])

\* C21: every record of an extract that lacks a required field is marked as
\* having issues, never as valid.
C21_LackingRecordNotValid ==
    validation # NotCalled =>
        \A i \in 1..Len(validation.extract.rows) :
            LacksRequiredField(validation.extract, i)
                => df.rows[i]["Validation_Status"] # "Valid"

\* C24: validate_invoices leaves the frame it is given unchanged, so the
\* frame written to the result file and to the snapshot is the extract plus
\* the status columns the workflow adds.
C24_ValidationLeavesInputUnchanged ==
    validation # NotCalled =>
        /\ validation.df = validation.extract
        /\ df.columns = validation.extract.columns \cup StatusColumns
        /\ \A i \in 1..Len(df.rows) : \A c \in validation.extract.columns :
               df.rows[i][c] = validation.extract.rows[i][c]


-----------------------------------------------------------------------------
(* Claims about volatile columns *)

\* the two records differ in a common column that is neither the key nor run
\* metadata
DifferOutsideVolatile(a, b) ==
    \E c \in (df.columns \cap previous_df.columns)
                 \ ({effective_primary_key} \cup VolatileColumns) :
        NormalCell(a[c]) # NormalCell(b[c])

\* C22: a record whose key is in the current set and in the previous
\* snapshot and whose values differ from the previous version only in
\* volatile run-metadata columns is classified Unchanged, not Modified.
C22_VolatileColumnsIgnored ==
    C1_Precondition =>
        \A i \in 1..Len(df.rows) :
            (\E j \in 1..Len(previous_df.rows) :
                 /\ KeyOfRow(previous_df.rows[j]) = KeyOfRow(df.rows[i])
                 /\ ~DifferOutsideVolatile(df.rows[i], previous_df.rows[j]))
                => /\ i \in comparison_result.unchanged_indices
                   /\ i \notin comparison_result.modified_indices

-----------------------------------------------------------------------------
(* Claims about _choose_first *)

\* the aliases some header matches when case is ignored
MatchedAliases(columns, names) ==
    {i \in 1..Len(names) :
        \E j \in 1..Len(columns) : lower(columns[j]) = lower(names[i])}

\* C25: _choose_first returns a header that matches, case ignored, the
\* earliest alias of the list that any header matches: a header of a later
\* alias is never chosen when a header matches an earlier one, and None is
\* returned only when no alias matches a header.
C25_EarliestAliasChosen ==
    choice.kind = "chosen" =>
        LET matched == MatchedAliases(choice.columns, choice.names)
        IN  IF matched = {}
            THEN choice.result = PyNone
            ELSE /\ choice.result.t = "str"
                 /\ lower(choice.result.v) = lower(choice.names[Min(matched)])

-----------------------------------------------------------------------------
(* Claims about the stored hash *)

\* the tracked field values two stored rows hold differ
StoredFieldsDiffer(a, b) ==
    \E column \in {"invoice_no", "vendor_name", "invoice_date", "gstin", "pan",
                   "hsn_code", "taxable_value", "total_amount"} :
        a[column] # b[column]

\* C26: the hash stored in a row is the fingerprint of the field values
\* stored in the row: two rows of invoice_snapshots whose tracked field
\* values differ have different stored hashes, whichever key spelling the
\* saved dictionaries used.
C26_StoredHashOfStoredFields ==
    \A i, j \in 1..Len(db) :
        StoredFieldsDiffer(db[i], db[j]) => db[i].hash # db[j].hash

-----------------------------------------------------------------------------
(* Claims about the archive *)

\* the archived rows of a table are rows of the table after the step
ArchivedRowsKept(table, table_after) ==
    \A i \in 1..Len(table) :
        table[i].archived = 1 => \E j \in 1..Len(table_after) : table_after[j] = table[i]

\* the step is a call of cleanup_old_data
CleanupStep ==
    \E days_to_keep \in DaysToKeep :
        LET tables == cleanup_old_data(run_windows, run_log, db, write_lock,
                                       days_to_keep, current_date)
        IN  /\ run_windows' = tables.run_windows
            /\ run_log' = tables.run_log
            /\ db' = tables.invoice_snapshots

\* C27: archiving is monotonic: a run-window record or a snapshot row that
\* is archived is left as it is by every step other than cleanup_old_data;
\* record_run_window and save_invoice_snapshot never make it live again.
C27_ArchivingMonotonic ==
    [][~CleanupStep =>
           /\ ArchivedRowsKept(run_windows, run_windows')
           /\ ArchivedRowsKept(run_log, run_log')
           /\ ArchivedRowsKept(db, db')]_vars

-----------------------------------------------------------------------------
(* Claims about the restart of the scheduler *)

\* the jobs the last tick of the day triggered
TriggeredToday ==
    {i \in 1..Len(scheduled_jobs) : scheduled_jobs[i].last_run = current_date}

\* C28: at any time at most one validation job is registered with the
\* scheduler, and one tick triggers scheduled_validation_job at most once,
\* also after start_scheduler has restarted itself.
C28_OneJobRegistered ==
    /\ Len(scheduled_jobs) <= 1
    /\ Cardinality(TriggeredToday) <= 1

-----------------------------------------------------------------------------
(* Claims about process_local_files *)

\* the sum of the invoice counts of the files whose invoices were inserted
RECURSIVE InsertedInvoices(_)
InsertedInvoices(files) ==
    IF files = <<>> THEN 0
    ELSE (IF Head(files).readable /\ Head(files).valid THEN Head(files).invoices ELSE 0)
         + InsertedInvoices(Tail(files))

\* C29: after the loop of process_local_files, successful + failed is the
\* number of files attempted and total_processed is the sum of the invoice
\* counts of the files whose invoices were inserted, also when a file fails
\* validation or cannot be read.
C29_CountersAccountForFiles ==
    (local_files.kind = "processed" /\ ~local_files.listing_fails) =>
        /\ processing_results.successful + processing_results.failed
               = Len(local_files.files)
        /\ processing_results.total_processed = InsertedInvoices(local_files.files)

-----------------------------------------------------------------------------
(* Claims about update_invoice_status *)

\* an attempt that succeeds: the update was submitted and the page displayed
\* no error indicator
AttemptSucceeds(page) == page.submitted /\ ~page.error_shown

\* C30: update_invoice_status makes at most max_retries attempts, stops at
\* the first attempt that succeeds, returns True only for an attempt in which
\* the update was submitted and the page displayed no error indicator, and
\* returns False when every attempt failed.
C30_TrueOnlyForCleanSubmission ==
    update.kind = "returned" =>
        /\ update.attempts <= update.max_retries
        /\ update.result =>
               /\ AttemptSucceeds(update.pages[update.attempts])
               /\ \A i \in 1..(update.attempts - 1) : ~AttemptSucceeds(update.pages[i])
        /\ (\A i \in 1..update.max_retries : ~AttemptSucceeds(update.pages[i]))
               => ~update.result

=============================================================================
